---- MODULE Spec2Model ----
(***************************************************************************)
(* Request execution engine of the DexPaprika Go SDK: Client.Do with its   *)
(* rate gate, retry loop, backoff, context handling and error              *)
(* classification, and the endpoint wrapper PoolsService.List on top.      *)
(***************************************************************************)
EXTENDS Integers, Sequences, FiniteSets, TLC

(* ------------------------------ bounds -------------------------------- *)

\* Largest retry count a client is configured with.
MaxRetriesBound == 2

\* The Do calls that can be made on the one client.
Calls == {"c1", "c2"}

\* WithRetryConfig stores any int; -1 stands for the negative ones.
RetryChoices == (0 - 1)..MaxRetriesBound

\* Status codes the transport may answer with.
Statuses == {200, 302, 400, 429, 502, 503}

\* Transport-level failures of http.Client.Do.
NetErrs == {"connection refused", "timeout"}

\* Response bodies: a JSON document (with an "error" field), and not JSON.
Bodies == {"{\"error\":\"m\"}", "not json"}

\* What io.ReadAll has read when it fails.
Partial == "{\"err"

\* Width in bits of time.Duration in the model (an int64 in the code); one
\* unit of duration is a second.
DurationBits == 4

\* 2^n
RECURSIVE Pow2(_)
Pow2(n) == IF n = 0 THEN 1 ELSE 2 * Pow2(n - 1)

MaxDuration == Pow2(DurationBits - 1) - 1

\* The waits WithRetryConfig is given.
Durations == 0..MaxDuration

DefaultRetryWaitMin == 1

DefaultRetryWaitMax == 5

VARIABLES
    maxRetries,   \* Client.maxRetries
    retryWaitMin, \* Client.retryWaitMin
    retryWaitMax, \* Client.retryWaitMax
    rateLimiter,  \* Client.rateLimiter # nil
    baseURL,      \* Client.baseURL
    userAgent,    \* Client.userAgent
    tickC,        \* number of ticks buffered in rateLimiter.C (capacity 1)
    ticks,        \* history: ticks the ticker has put in rateLimiter.C
    callers,      \* the calls the program makes
    pc,           \* position of each call
    caller,       \* who made the call: "Do" (direct) or "List" (PoolsService.List)
    v,            \* Do's v # nil: a destination is supplied
    ctx,          \* state of the call's context
    reqBody,      \* req.Body, the stream every clone of req shares
    i,            \* loop counter of Do
    backoff,      \* Do's backoff: the wait computed last
    resp,         \* Do's resp: 0 is nil, otherwise the response's status code
    respBody,     \* Do's respBody: "" is nil
    open,         \* transport response bodies obtained by Do and not closed
    decoded,      \* the destination has been decoded into
    ret,          \* what Do returned
    out,          \* how the endpoint wrapper ended
    permits,      \* history: ticks the call has received from rateLimiter.C
    nDispatch,    \* history: invocations of c.client.Do by the call
    sent,         \* history: what the body of each dispatched clone yields
    log,          \* history: outcome of each attempt, in order
    events,       \* history: the permit received, the dispatches, their
                  \* outcomes and the backoff waits begun, in order
    cancelAt,     \* history: where the call was when its context ended
    sinceCancel,  \* history: dispatches and backoff waits begun after that
    classified,   \* the last call of createAPIError: its arguments and result
    judged,       \* the last call of IsRetryable: its argument and result
    built,        \* the last call of NewRequest: its arguments and results
    setBase,      \* the last call of SetBaseURL: its argument and result
    clock,        \* time.Now(), in units of duration since the start
    items,        \* InMemoryCache.items
    mu,           \* InMemoryCache.mu: who holds the write lock
    todo,         \* cleanup: the keys its range loop has yet to visit
    cacheOp,      \* the last call on the cache: its arguments and results
    lastSet,      \* history: per key, the last Set and whether a Delete
                  \* or Clear came after it
    cttl,         \* CachedClient.ttl; 0 before NewCachedClient
    cached,       \* the call each goroutine makes on the CachedClient
    pager,        \* the paginator: a PoolsPaginator or a
                  \* TransactionsPaginator
    pageOp,       \* the last call of GetNextPage: its result, and the page
                  \* GetCurrentPage gave before it
    requested,    \* history: the page number of each request the
                  \* paginator issued, in order
    search        \* the last call of SearchService.Search

vars == <<maxRetries, retryWaitMin, retryWaitMax, rateLimiter, tickC, ticks,
          callers, pc, caller, v, ctx, reqBody, i, backoff, resp, respBody,
          decoded, ret, out, permits, nDispatch, sent, log, cancelAt,
          sinceCancel, classified, judged, baseURL, userAgent, built, open,
          setBase, clock, items, mu, todo, cacheOp, lastSet, cttl, cached,
          pager, pageOp, requested, search, events>>

\* The state of the InMemoryCache and of the clock it reads.
cacheVars == <<clock, items, mu, todo, cacheOp, lastSet>>

\* The CachedClient and the calls made on it.
cachedVars == <<cttl, cached>>

\* The paginator and the search service, which wrap the client.
wrappers == <<pager, pageOp, requested, search>>

\* What Client.Do, NewRequest and the setters neither read nor write.
rest == <<cacheVars, cachedVars, wrappers>>

(* ------------------------------- URLs --------------------------------- *)

DefaultBaseURL == "https://api.dexpaprika.com"

\* A *url.URL: scheme and host ("" in a relative reference), the segments
\* of the path, whether the path begins and ends with "/", the query.
URL(scheme, host, rooted, path, slash, query) ==
    [scheme |-> scheme, host |-> host, rooted |-> rooted, path |-> path,
     slash |-> slash, query |-> query]

NoURL == URL("", "", FALSE, << >>, FALSE, "")

\* url.Parse(str): ok is `err == nil`.
Parse(str) ==
    CASE str = "https://api.dexpaprika.com" ->
            [ok |-> TRUE, url |-> URL("https", "api.dexpaprika.com", FALSE,
                                      << >>, FALSE, "")]
      [] str = "https://api.dexpaprika.com/" ->
            [ok |-> TRUE, url |-> URL("https", "api.dexpaprika.com", TRUE,
                                      << >>, FALSE, "")]
      [] str = "https://your-proxy.example.com/dexpaprika" ->
            [ok |-> TRUE, url |-> URL("https", "your-proxy.example.com", TRUE,
                                      <<"dexpaprika">>, FALSE, "")]
      [] str = "https://your-proxy.example.com/dexpaprika/" ->
            [ok |-> TRUE, url |-> URL("https", "your-proxy.example.com", TRUE,
                                      <<"dexpaprika">>, TRUE, "")]
      [] str = "/pools" ->
            [ok |-> TRUE, url |-> URL("", "", TRUE, <<"pools">>, FALSE, "")]
      [] str = "/networks/ethereum/pools?page=1" ->
            [ok |-> TRUE, url |-> URL("", "", TRUE,
                                      <<"networks", "ethereum", "pools">>,
                                      FALSE, "page=1")]
      [] str = "pools" ->
            [ok |-> TRUE, url |-> URL("", "", FALSE, <<"pools">>, FALSE, "")]
      [] OTHER -> [ok |-> FALSE, url |-> NoURL]

\* The path of a URL as text
RECURSIVE Join(_)
Join(segs) ==
    IF segs = << >> THEN ""
    ELSE IF Len(segs) = 1 THEN segs[1]
    ELSE segs[1] \o "/" \o Join(Tail(segs))

PathString(u) ==
    (IF u.rooted THEN "/" ELSE "") \o Join(u.path)
    \o (IF u.slash /\ u.path # << >> THEN "/" ELSE "")

\* u.String()
String(u) ==
    (IF u.scheme # "" THEN u.scheme \o "://" \o u.host ELSE "")
    \o PathString(u)
    \o (IF u.query # "" THEN "?" \o u.query ELSE "")

\* The path up to and including its last "/": base[:i+1] of resolvePath.
Dir(u) ==
    IF u.slash \/ u.path = << >> THEN u.path
    ELSE SubSeq(u.path, 1, Len(u.path) - 1)

\* u.ResolveReference(ref), RFC 3986 section 5.2, for references without
\* "." and ".." segments: a reference with a scheme or host stands as it is;
\* a path beginning with "/" replaces the path of u; any other path is
\* joined to the directory of u's path.  The result's path begins with "/".
ResolveReference(u, ref) ==
    IF ref.scheme # "" \/ ref.host # "" THEN ref
    ELSE IF ref.rooted
         THEN URL(u.scheme, u.host, TRUE, ref.path, ref.slash, ref.query)
         ELSE URL(u.scheme, u.host, TRUE, Dir(u) \o ref.path, ref.slash,
                  ref.query)

(* ------------------------------ errors -------------------------------- *)

\* An error value: its dynamic type, the APIError fields, and the chain of
\* errors reachable through Unwrap (outermost first).
NilErr == [type |-> "nil", StatusCode |-> 0, Message |-> "",
           RawResponse |-> "", Err |-> << >>]

APIError(status, msg, raw, chain) ==
    [type |-> "APIError", StatusCode |-> status, Message |-> msg,
     RawResponse |-> raw, Err |-> chain]

\* ctx.Err(): context.Canceled or context.DeadlineExceeded, not an *APIError.
CtxErr(c) == [type |-> "context", StatusCode |-> 0, Message |-> "",
              RawResponse |-> "", Err |-> <<ctx[c]>>]

\* An error that is not an *APIError, with the messages of its chain:
\* errors.New(m), or fmt.Errorf("...: %w", ...) around one.
Plain(chain) == [type |-> "plain", StatusCode |-> 0, Message |-> "",
                 RawResponse |-> "", Err |-> chain]

\* fmt.Errorf(msg + ": %w", inner)
Wrapped(msg, inner) ==
    [type |-> "wrapped", StatusCode |-> 0, Message |-> "", RawResponse |-> "",
     Err |-> <<msg>> \o inner.Err, inner |-> inner]

\* errors.As(e, &apiErr): the first *APIError in e's chain, NilErr when
\* there is none.
RECURSIVE AsAPIError(_)
AsAPIError(e) ==
    IF e.type = "APIError" THEN e
    ELSE IF e.type = "wrapped" THEN AsAPIError(e.inner)
    ELSE NilErr

\* The package's error values.
Sentinels ==
    {"bad request", "unauthorized", "forbidden", "not found",
     "rate limit exceeded", "internal server error", "service unavailable",
     "request timeout", "retryable error"}

Range(s) == {s[k] : k \in 1..Len(s)}

\* errors.Is(e, target)
ErrorsIs(e, target) == target \in Range(e.Err)

\* Bodies given to the classifier: JSON objects with a string "error" field,
\* with an empty one, with one that is not a string, without one; text that
\* is not JSON; no body.
ClassifierBodies ==
    Bodies \cup {"{\"error\":\"Resource not found\"}", "{\"error\":\"\"}",
                 "{\"error\":5}", "{\"message\":\"m\"}", ""}

\* Statuses given to the classifier: every case of its switch, and statuses
\* around them.
ClassifierStatuses ==
    {100, 199, 300, 302, 399, 400, 401, 402, 403, 404, 418, 428, 429, 430, 499,
     500, 501, 502, 503, 504, 599, 600, 999}

\* A "error" field of a JSON object.
Field(kind, str) == [kind |-> kind, str |-> str]

\* The body as a JSON document: whether it parses, and its "error" field.
JSONDoc(body) ==
    CASE body = "{\"error\":\"m\"}" ->
            [valid |-> TRUE, error |-> Field("string", "m")]
      [] body = "{\"error\":\"Resource not found\"}" ->
            [valid |-> TRUE, error |-> Field("string", "Resource not found")]
      [] body = "{\"error\":\"\"}" ->
            [valid |-> TRUE, error |-> Field("string", "")]
      [] body = "{\"error\":5}" ->
            [valid |-> TRUE, error |-> Field("number", "5")]
      [] body = "{\"message\":\"m\"}" ->
            [valid |-> TRUE, error |-> Field("absent", "")]
      [] OTHER ->
            [valid |-> FALSE, error |-> Field("absent", "")]

\* json.Unmarshal(body, &errorResp) returns nil: the body parses and its
\* "error" field, when there is one, is a string.
UnmarshalOK(body) ==
    JSONDoc(body).valid /\ JSONDoc(body).error.kind \in {"string", "absent"}

\* errMsg: errorResp.Error when json.Unmarshal succeeded and it is not ""
ErrorField(body) ==
    IF UnmarshalOK(body) /\ JSONDoc(body).error.str # ""
    THEN JSONDoc(body).error.str
    ELSE ""

\* json.NewDecoder(body).Decode(v) succeeds
Decodable(body) == JSONDoc(body).valid

\* createAPIError without the `>= 500` test in its default case.
createAPIError_NoDefault5xx(status, body) ==
    APIError(status, ErrorField(body), body,
        CASE status = 400 -> <<"bad request">>
          [] status = 401 -> <<"unauthorized">>
          [] status = 403 -> <<"forbidden">>
          [] status = 404 -> <<"not found">>
          [] status = 429 -> <<"rate limit exceeded">>
          [] status = 500 -> <<"internal server error">>
          [] status = 503 -> <<"service unavailable">>
          [] OTHER -> <<"unexpected status code">>)

createAPIError(status, body) ==
    APIError(status, ErrorField(body), body,
        CASE status = 400 -> <<"bad request">>
          [] status = 401 -> <<"unauthorized">>
          [] status = 403 -> <<"forbidden">>
          [] status = 404 -> <<"not found">>
          [] status = 429 -> <<"rate limit exceeded">>
          [] status = 500 -> <<"internal server error">>
          [] status = 503 -> <<"service unavailable">>
          [] OTHER -> IF status >= 500 THEN <<"retryable error">>
                      ELSE <<"unexpected status code">>)

\* IsRetryable with every status from 400 up taken as retryable.
IsRetryable_ClientErrors(e) ==
    e.type = "APIError" /\ e.StatusCode >= 400

\* IsRetryable without the 429 case.
IsRetryable_No429(e) ==
    IF e.type = "nil" THEN FALSE
    ELSE \/ e.type = "APIError" /\ e.StatusCode >= 500 /\ e.StatusCode < 600
         \/ ErrorsIs(e, "retryable error")
         \/ ErrorsIs(e, "request timeout")
         \/ ErrorsIs(e, "service unavailable")

\* IsRetryable without the errors.Is tests.
IsRetryable_NoSentinels(e) ==
    IF e.type = "nil" THEN FALSE
    ELSE LET apiErr == AsAPIError(e)
         IN  \/ /\ apiErr.type = "APIError"
                 /\ apiErr.StatusCode >= 500 /\ apiErr.StatusCode < 600
             \/ apiErr.type = "APIError" /\ apiErr.StatusCode = 429

IsRetryable(e) ==
    IF e.type = "nil" THEN FALSE
    ELSE LET apiErr == AsAPIError(e)
         IN  \/ /\ apiErr.type = "APIError"
                 /\ apiErr.StatusCode >= 500 /\ apiErr.StatusCode < 600
             \/ apiErr.type = "APIError" /\ apiErr.StatusCode = 429
             \/ ErrorsIs(e, "retryable error")
             \/ ErrorsIs(e, "request timeout")
             \/ ErrorsIs(e, "service unavailable")

\* The errors IsRetryable is asked about: nil, the package's error values
\* bare and wrapped, other errors, what the classifier returns, *APIError
\* values built by hand, and errors wrapping an *APIError.
JudgedErrors ==
    {NilErr}
    \cup {Plain(<<m>>) : m \in Sentinels \cup {"regular error", "context canceled"}}
    \cup {Plain(<<"wrapping", m>>) : m \in Sentinels}
    \cup {createAPIError(st, "") : st \in ClassifierStatuses}
    \cup {APIError(st, "", "", <<m>>) :
              st \in {0, 400, 404, 429, 503},
              m \in {"regular error", "request timeout"}}
    \cup {Wrapped("wrapping", a) :
              a \in {APIError(503, "", "", <<"regular error">>),
                     APIError(429, "", "", <<"regular error">>),
                     APIError(404, "", "", <<"not found">>)}}

(* -------------------------- construction ------------------------------ *)

NoRet == [resp |-> 0, err |-> NilErr, set |-> FALSE]

\* One entry of the attempt history: what the attempt ended in.
\*   "transport_error"  c.client.Do returned the error `cause`
\*   "ctx_done"         the context was done when c.client.Do returned
\*   "read_error"       io.ReadAll failed (the response's status stays in resp)
\*   "response"         a response with this status was read in full
Outcome(kind, status, cause) == [kind |-> kind, status |-> status, cause |-> cause]

\* The client's configuration, fixed by NewClient and its options.
config == <<maxRetries, retryWaitMin, retryWaitMax, rateLimiter, baseURL,
           userAgent, callers>>

\* A body value given to NewRequest: nil, a struct{Name string
\* `json:"name"`}, a nil pointer to one, or a channel.
Value(kind, name) == [kind |-> kind, name |-> name]

NilValue == Value("nil", "")

BodyValues ==
    {NilValue, Value("struct", "test"), Value("struct", "a<b"),
     Value("nilptr", ""), Value("chan", "")}

\* A JSON string's content as json.Encoder writes it: "<" becomes \u003c.
Escape(str) == IF str = "a<b" THEN "a\\u003cb" ELSE str

\* json.NewEncoder(buf).Encode(body): ok is `err == nil`, text is what buf
\* holds, the JSON value and a newline.
Encode(val) ==
    CASE val.kind = "struct" ->
            [ok |-> TRUE, text |-> "{\"name\":\"" \o Escape(val.name) \o "\"}\n"]
      [] val.kind = "nilptr" -> [ok |-> TRUE, text |-> "null\n"]
      [] OTHER -> [ok |-> FALSE, text |-> ""]

\* json.Unmarshal(text, &x) for x of the type of the value encoded
Decode(text) ==
    CASE text = "{\"name\":\"test\"}\n" -> Value("struct", "test")
      [] text = "{\"name\":\"a\\u003cb\"}\n" -> Value("struct", "a<b")
      [] text = "null\n" -> Value("nilptr", "")
      [] OTHER -> Value("invalid", "")

\* An *http.Request: nil is `req == nil`; Body is what reading it yields.
Request(method, url, header, body) ==
    [nil |-> FALSE, Method |-> method, URL |-> url, Header |-> header,
     Body |-> body]

NoRequest == [nil |-> TRUE, Method |-> "", URL |-> "", Header |-> {},
              Body |-> ""]

\* NewRequest has not been called.
NotBuilt == [method |-> "", path |-> "", body |-> NilValue, base |-> NoURL,
             agent |-> "", req |-> NoRequest, err |-> NilErr]

\* A *cacheItem; present is false for a key the map does not hold.
Item(value, expiresAt) ==
    [present |-> TRUE, value |-> value, expiresAt |-> expiresAt]

NoItem == [present |-> FALSE, value |-> "", expiresAt |-> 0]

\* Cache keys: those of CachedClient.GetNetworks and of
\* CachedClient.GetPoolDetails("ethereum", "0xpool", false).
Keys == {"networks", "pool_details:ethereum:0xpool:false"}

\* One call of Get, Set, Delete or Clear: value and found are Get's results.
CacheCall(op, key, value, found, at) ==
    [op |-> op, key |-> key, value |-> value, found |-> found, at |-> at]

\* One entry of the history of Set calls.
SetCall(value, at, ttl, live) ==
    [value |-> value, at |-> at, ttl |-> ttl, live |-> live]

\* NewInMemoryCache(): an empty map; the cleanup goroutine waits for its
\* ticker.
NewInMemoryCache ==
    /\ clock = 0
    /\ items = [k \in Keys |-> NoItem]
    /\ mu = "free"
    /\ todo = {}
    /\ cacheOp = CacheCall("", "", "", FALSE, 0)
    /\ lastSet = [k \in Keys |-> SetCall("", 0, 0, FALSE)]

\* The goroutines that call the CachedClient.
Goroutines == {"g1", "g2"}

\* A call on the CachedClient: where it is, the method called, its results
\* (value, err # nil), the upstream requests it has issued, and as history
\* what the history of stores had for its key when it looked the key up.
CachedCall(at, method, value, err, upstream, expect) ==
    [pc |-> at, method |-> method, value |-> value, err |-> err,
     upstream |-> upstream, expect |-> expect]

NoCachedCall ==
    CachedCall("idle", "", "", FALSE, 0, [hit |-> FALSE, value |-> ""])

\* An error value as the paginator handles it: id tells apart the values
\* that separate calls of fmt.Errorf or of the client return.
ErrorValue(msg, id) == [nil |-> FALSE, msg |-> msg, id |-> id]

NilError == [nil |-> TRUE, msg |-> "", id |-> 0]

\* A *TransactionsResponse: the IDs of its transactions and its PageInfo.
TransactionsResponse(txs, page, total) ==
    [nil |-> FALSE, Transactions |-> txs, Page |-> page, TotalPages |-> total]

NoResponse == [nil |-> TRUE, Transactions |-> << >>, Page |-> 0,
               TotalPages |-> 0]

\* No paginator has been made.
NoPaginator == [made |-> FALSE, kind |-> "", page |-> 0, limit |-> 0,
                cursor |-> "", currentResp |-> NoResponse, err |-> NilError]

\* Search has not been called.
NoSearch == [called |-> FALSE, query |-> << >>, RawQuery |-> << >>,
             received |-> << >>]

\* What the program calls on its own, outside Do.
lib == <<classified, judged, built, setBase>>

\* NewClient with WithRetryConfig and, optionally, WithRateLimit, in a
\* program that makes the calls cs; no call has been made and the ticker has
\* not ticked yet.
InitWith(cs) ==
    /\ maxRetries \in RetryChoices
    /\ rateLimiter \in BOOLEAN
    /\ tickC = 0
    /\ ticks = 0
    /\ callers = cs
    /\ pc = [c \in Calls |-> "idle"]
    /\ caller = [c \in Calls |-> "Do"]
    /\ v = [c \in Calls |-> FALSE]
    /\ ctx = [c \in Calls |-> "live"]
    /\ i = [c \in Calls |-> 0]
    /\ backoff = [c \in Calls |-> 0]
    /\ resp = [c \in Calls |-> 0]
    /\ respBody = [c \in Calls |-> ""]
    /\ open = [c \in Calls |-> 0]
    /\ decoded = [c \in Calls |-> FALSE]
    /\ ret = [c \in Calls |-> NoRet]
    /\ out = [c \in Calls |-> "none"]
    /\ permits = [c \in Calls |-> 0]
    /\ nDispatch = [c \in Calls |-> 0]
    /\ sent = [c \in Calls |-> << >>]
    /\ log = [c \in Calls |-> << >>]
    /\ events = [c \in Calls |-> << >>]
    /\ cancelAt = [c \in Calls |-> "none"]
    /\ sinceCancel = [c \in Calls |-> [dispatch |-> 0, backoff |-> 0]]
    /\ classified = [status |-> 0, body |-> "", err |-> NilErr]
    /\ judged = [err |-> NilErr, retryable |-> FALSE]
    /\ built = NotBuilt
    /\ setBase = [urlStr |-> "", err |-> NilErr]
    /\ NewInMemoryCache
    /\ cttl = 0
    /\ cached = [g \in Goroutines |-> NoCachedCall]
    /\ pager = NoPaginator
    /\ pageOp = [op |-> "", ret |-> NilError, prev |-> << >>, errors |-> 0]
    /\ requested = << >>
    /\ search = NoSearch

\* The waits NewClient sets when WithRetryConfig is not among the options.
DefaultRetryWait ==
    /\ retryWaitMin = DefaultRetryWaitMin
    /\ retryWaitMax = DefaultRetryWaitMax

\* The requests are built without a body, as every endpoint wrapper does
\* (NewRequest(http.MethodGet, path, nil)): req.Body is nil.
NoBody == reqBody = [c \in Calls |-> "none"]

\* The requests are built with a body: req.Body is a bytes.Buffer holding
\* the encoded value, unread.
WithBody == reqBody = [c \in Calls |-> "fresh"]

\* The address and User-Agent NewClient sets when WithBaseURL and
\* WithUserAgent are not among the options.
DefaultAddress ==
    /\ baseURL = Parse(DefaultBaseURL).url
    /\ userAgent = "DexPaprika-SDK-Go"

\* One call on the client.  Calls on one client share only the ticker's
\* channel, so to the call a concurrent one is ticks that never reach it.
Init ==
    /\ InitWith({"c1"})
    /\ DefaultRetryWait
    /\ DefaultAddress
    /\ NoBody

(* ---------------------------- Client.Do ------------------------------- *)

\* <-ctx.Done() is ready
CtxDone(c) == ctx[c] # "live"

\* Do without the select on ctx.Done() after c.client.Do.
CtxDoneAfterDispatch_Missing(c) == FALSE

\* The select on ctx.Done() with a default, right after c.client.Do.
CtxDoneAfterDispatch(c) == CtxDone(c)

\* The loop condition allowing one iteration more.
LoopCond_OneMore(k) == k <= maxRetries + 1

\* for i := ...; i <= c.maxRetries; ...
LoopCond(k) == k <= maxRetries

\* The last-attempt test written i == c.maxRetries-1.
LastAttempt_OffByOne(k) == k = maxRetries - 1

\* i == c.maxRetries
LastAttempt(k) == k = maxRetries

\* i < c.maxRetries
AttemptsRemain(k) == k < maxRetries

\* The status test written resp.StatusCode <= 200 || resp.StatusCode >= 300.
ErrorStatus_Inclusive(s) == s <= 200 \/ s >= 300

\* resp.StatusCode < 200 || resp.StatusCode >= 300
ErrorStatus(s) == s < 200 \/ s >= 300

\* The decode error dropped.
DecodeFails_Ignored(c, body) == FALSE

\* v != nil and json.NewDecoder(resp.Body).Decode(v) returns an error
DecodeFails(c, body) == v[c] /\ ~Decodable(body)

\* x as an integer of DurationBits bits in two's complement
Wrap(x) ==
    ((x + Pow2(DurationBits - 1)) % Pow2(DurationBits)) - Pow2(DurationBits - 1)

\* time.Duration(1 << uint(n)): a shift by the width or more gives 0
Shl(n) == IF n >= DurationBits THEN 0 ELSE Wrap(Pow2(n))

\* backoff := c.retryWaitMin * time.Duration(1<<uint(i-1)), cut to
\* c.retryWaitMax when above it
Backoff(k) ==
    LET b == Wrap(retryWaitMin * Shl(k - 1))
    IN  IF b > retryWaitMax THEN retryWaitMax ELSE b

\* The events evs of call c are recorded, and after them the beginning of
\* a backoff wait when the step ends in one.
Record(c, evs) ==
    events' = [events EXCEPT ![c] =
                 @ \o evs \o (IF pc'[c] = "backoff" THEN <<"backoff">>
                               ELSE << >>)]

\* return r, e
Return(c, r, e) ==
    /\ pc' = [pc EXCEPT ![c] = "done"]
    /\ ret' = [ret EXCEPT ![c] = [resp |-> r, err |-> e, set |-> TRUE]]

\* The loop without its backoff wait: every iteration starts with the
\* dispatch.
Iterate_NoBackoff(c, k, r) ==
    /\ i' = [i EXCEPT ![c] = k]
    /\ IF LoopCond(k)
       THEN /\ pc' = [pc EXCEPT ![c] = "dispatch"]
            /\ backoff' = IF k > 0 THEN [backoff EXCEPT ![c] = Backoff(k)]
                           ELSE backoff
            /\ ret' = ret
            /\ sinceCancel' =
                 IF k > 0 /\ CtxDone(c)
                 THEN [sinceCancel EXCEPT ![c].backoff = @ + 1]
                 ELSE sinceCancel
       ELSE /\ Return(c, r, NilErr)
            /\ UNCHANGED <<backoff, sinceCancel>>

\* Top of the loop with counter k: the body starts with the backoff wait when
\* k > 0 and with the dispatch otherwise; when the condition fails the
\* function ends with `return resp, nil`.
Iterate(c, k, r) ==
    /\ i' = [i EXCEPT ![c] = k]
    /\ IF LoopCond(k)
       THEN /\ pc' = [pc EXCEPT ![c] = IF k > 0 THEN "backoff" ELSE "dispatch"]
            /\ backoff' = IF k > 0 THEN [backoff EXCEPT ![c] = Backoff(k)]
                           ELSE backoff
            /\ ret' = ret
            /\ sinceCancel' =
                 IF k > 0 /\ CtxDone(c)
                 THEN [sinceCancel EXCEPT ![c].backoff = @ + 1]
                 ELSE sinceCancel
       ELSE /\ Return(c, r, NilErr)
            /\ UNCHANGED <<backoff, sinceCancel>>

\* A caller invokes Do: directly, with or without a destination, or through
\* PoolsService.List, which passes &response.
Call(c) ==
    /\ c \in callers
    /\ pc[c] = "idle"
    /\ \E who \in {"Do", "List"} : \E dest \in BOOLEAN :
         /\ who = "List" => dest
         /\ caller' = [caller EXCEPT ![c] = who]
         /\ v' = [v EXCEPT ![c] = dest]
    /\ pc' = [pc EXCEPT ![c] = "gate"]
    /\ UNCHANGED <<events, rest, open, config, lib, ticks, reqBody, sent,
                   tickC, ctx, i, backoff, resp, respBody, decoded, ret, out,
                   permits, nDispatch, log, cancelAt, sinceCancel>>

\* c.rateLimiter == nil: no gating.
GateOpen(c) ==
    /\ pc[c] = "gate"
    /\ ~rateLimiter
    /\ Iterate(c, 0, resp[c])
    /\ UNCHANGED <<events, rest, open, config, lib, ticks, reqBody, sent,
                   tickC, caller, v, ctx, resp, respBody, decoded, out,
                   permits, nDispatch, log, cancelAt>>

\* The permit wait passing on a tick it leaves in the channel.
GatePermit_TickLeft(c) ==
    /\ pc[c] = "gate"
    /\ rateLimiter
    /\ tickC > 0
    /\ permits' = [permits EXCEPT ![c] = @ + 1]
    /\ Iterate(c, 0, resp[c])
    /\ Record(c, <<"permit">>)
    /\ UNCHANGED <<rest, open, config, lib, ticks, tickC, reqBody, sent,
                   caller, v, ctx, resp, respBody, decoded, out, nDispatch,
                   log, cancelAt>>

\* case <-c.rateLimiter.C
GatePermit(c) ==
    /\ pc[c] = "gate"
    /\ rateLimiter
    /\ tickC > 0
    /\ tickC' = tickC - 1
    /\ permits' = [permits EXCEPT ![c] = @ + 1]
    /\ Iterate(c, 0, resp[c])
    /\ Record(c, <<"permit">>)
    /\ UNCHANGED <<rest, open, config, lib, ticks, reqBody, sent, caller, v,
                   ctx, resp, respBody, decoded, out, nDispatch, log,
                   cancelAt>>

\* The permit wait written as a bare receive `<-c.rateLimiter.C`: there is
\* no ctx.Done() case to take.
GateCancelled_Uncancellable(c) ==
    /\ pc[c] = "gate"
    /\ rateLimiter
    /\ FALSE
    /\ UNCHANGED <<events, rest, open, config, lib, ticks, reqBody, sent,
                   tickC, pc, caller, v, ctx, i, backoff, resp, respBody,
                   decoded, ret, out, permits, nDispatch, log, cancelAt,
                   sinceCancel>>

\* case <-ctx.Done(): return nil, ctx.Err()
GateCancelled(c) ==
    /\ pc[c] = "gate"
    /\ rateLimiter
    /\ CtxDone(c)
    /\ Return(c, 0, CtxErr(c))
    /\ UNCHANGED <<events, rest, open, config, lib, ticks, reqBody, sent,
                   tickC, caller, v, ctx, i, backoff, resp, respBody, decoded,
                   out, permits, nDispatch, log, cancelAt, sinceCancel>>

\* The backoff wait on a timer that never fires: only the context ends it.
BackoffElapsed_NeverFires(c) ==
    /\ pc[c] = "backoff"
    /\ FALSE
    /\ UNCHANGED <<events, rest, open, config, lib, ticks, reqBody, sent,
                   tickC, pc, caller, v, ctx, i, backoff, resp, respBody,
                   decoded, ret, out, permits, nDispatch, log, cancelAt,
                   sinceCancel>>

\* The backoff wait taking a permit as well: it ends on a tick.
BackoffElapsed_TakesPermit(c) ==
    /\ pc[c] = "backoff"
    /\ rateLimiter => tickC > 0
    /\ tickC' = IF rateLimiter THEN tickC - 1 ELSE tickC
    /\ permits' = IF rateLimiter THEN [permits EXCEPT ![c] = @ + 1]
                  ELSE permits
    /\ pc' = [pc EXCEPT ![c] = "dispatch"]
    /\ UNCHANGED <<rest, open, events, config, lib, ticks, reqBody, sent,
                   caller, v, ctx, i, backoff, resp, respBody, decoded, ret,
                   out, nDispatch, log, cancelAt, sinceCancel>>

\* case <-timer.C of the backoff select
BackoffElapsed(c) ==
    /\ pc[c] = "backoff"
    /\ pc' = [pc EXCEPT ![c] = "dispatch"]
    /\ UNCHANGED <<events, rest, open, config, lib, ticks, reqBody, sent,
                   tickC, caller, v, ctx, i, backoff, resp, respBody, decoded,
                   ret, out, permits, nDispatch, log, cancelAt, sinceCancel>>

\* case <-ctx.Done() of the backoff select: timer.Stop(); return nil, ctx.Err()
BackoffCancelled(c) ==
    /\ pc[c] = "backoff"
    /\ CtxDone(c)
    /\ Return(c, 0, CtxErr(c))
    /\ UNCHANGED <<events, rest, open, config, lib, ticks, reqBody, sent,
                   tickC, caller, v, ctx, i, backoff, resp, respBody, decoded,
                   out, permits, nDispatch, log, cancelAt, sinceCancel>>

\* What reading reqClone.Body to its end yields.  Request.Clone copies the
\* Body field as it is: the clone reads the stream of req.
CloneBody(c) ==
    CASE reqBody[c] = "none" -> "none"
      [] reqBody[c] = "fresh" -> "full"
      [] reqBody[c] = "drained" -> "empty"

\* The state of req.Body once c.client.Do has returned: a response means the
\* request was written, body included; an error may have come before or
\* after the body was read.
BodyAfter(c, responded) ==
    CASE reqBody[c] = "none" -> {"none"}
      [] reqBody[c] = "drained" -> {"drained"}
      [] reqBody[c] = "fresh" ->
            IF responded THEN {"drained"} ELSE {"fresh", "drained"}

\* The transport's error for a request whose Body ends before ContentLength
\* bytes: "http: ContentLength=N with Body length 0".
BodyLengthErr == "ContentLength with Body length 0"

\* The clone sent twice at once, the first answer taken.
Dispatch_Hedged(c) ==
    /\ pc[c] = "dispatch"
    /\ pc' = [pc EXCEPT ![c] = "inflight"]
    /\ nDispatch' = [nDispatch EXCEPT ![c] = @ + 2]
    /\ sent' = [sent EXCEPT ![c] = Append(@, CloneBody(c))]
    /\ sinceCancel' = IF CtxDone(c)
                      THEN [sinceCancel EXCEPT ![c].dispatch = @ + 1]
                      ELSE sinceCancel
    /\ Record(c, <<"dispatch">>)
    /\ UNCHANGED <<rest, open, config, lib, ticks, reqBody, tickC, caller, v,
                   ctx, i, backoff, resp, respBody, decoded, ret, out,
                   permits, log, cancelAt>>

\* reqClone := req.Clone(ctx); c.client.Do(reqClone) is entered
Dispatch(c) ==
    /\ pc[c] = "dispatch"
    /\ pc' = [pc EXCEPT ![c] = "inflight"]
    /\ nDispatch' = [nDispatch EXCEPT ![c] = @ + 1]
    /\ sent' = [sent EXCEPT ![c] = Append(@, CloneBody(c))]
    /\ sinceCancel' = IF CtxDone(c)
                      THEN [sinceCancel EXCEPT ![c].dispatch = @ + 1]
                      ELSE sinceCancel
    /\ Record(c, <<"dispatch">>)
    /\ UNCHANGED <<rest, open, config, lib, ticks, reqBody, tickC, caller, v,
                   ctx, i, backoff, resp, respBody, decoded, ret, out,
                   permits, log, cancelAt>>

\* resp.Body.Close() after io.ReadAll: one open body fewer
Close(n) == n - 1

\* The cancellation branch returning without closing the body.
CloseOnCancel_Missing(n) == n

\* if resp != nil { resp.Body.Close() } in the select on ctx.Done()
CloseOnCancel(n) == n - 1

\* c.client.Do returns (nil, e); then the select on ctx.Done(), then the
\* `if err != nil` block.  BodyLengthErr is the error of a clone whose body
\* was read by an earlier dispatch.
ClientDoError(c, e) ==
    /\ pc[c] = "inflight"
    /\ e = BodyLengthErr => reqBody[c] = "drained"
    /\ \E b \in BodyAfter(c, FALSE) : reqBody' = [reqBody EXCEPT ![c] = b]
    /\ resp' = [resp EXCEPT ![c] = 0]
    /\ IF CtxDoneAfterDispatch(c)
       THEN /\ Return(c, 0, CtxErr(c))
            /\ log' = [log EXCEPT ![c] = Append(@, Outcome("ctx_done", 0, ""))]
            /\ UNCHANGED <<i, backoff, sinceCancel>>
       ELSE /\ log' = [log EXCEPT ![c] =
                          Append(@, Outcome("transport_error", 0, e))]
            /\ IF LastAttempt(i[c])
               THEN /\ Return(c, 0, APIError(0, "", "",
                                     <<"network error after retries", e>>))
                    /\ UNCHANGED <<i, backoff, sinceCancel>>
               ELSE Iterate(c, i[c] + 1, 0)
    /\ Record(c, <<"outcome">>)
    /\ UNCHANGED <<rest, open, config, lib, ticks, sent, tickC, caller, v,
                   ctx, respBody, decoded, out, permits, nDispatch, cancelAt>>

\* c.client.Do returns (resp, nil); then the select on ctx.Done(), which
\* closes the body and returns when the context is done.  A request whose
\* body stream is already read to its end is not answered: writing it fails.
ClientDoResponse(c, s) ==
    /\ pc[c] = "inflight"
    /\ reqBody[c] # "drained"
    /\ \E b \in BodyAfter(c, TRUE) : reqBody' = [reqBody EXCEPT ![c] = b]
    /\ resp' = [resp EXCEPT ![c] = s]
    /\ IF CtxDoneAfterDispatch(c)
       THEN /\ open' = [open EXCEPT ![c] = CloseOnCancel(@ + 1)]
            /\ Return(c, 0, CtxErr(c))
            /\ log' = [log EXCEPT ![c] = Append(@, Outcome("ctx_done", s, ""))]
            /\ Record(c, <<"outcome">>)
       ELSE /\ open' = [open EXCEPT ![c] = @ + 1]
            /\ pc' = [pc EXCEPT ![c] = "read"]
            /\ UNCHANGED <<ret, log, events>>
    /\ UNCHANGED <<rest, config, lib, ticks, sent, tickC, caller, v, ctx, i,
                   backoff, respBody, decoded, out, permits, nDispatch,
                   cancelAt, sinceCancel>>

\* The read failure handled after the status check: a response whose status
\* is not retryable ends the call with the response and its error, as it
\* does when the body is read.
ReadFail_AfterStatusCheck(c) ==
    /\ pc[c] = "read"
    /\ open' = [open EXCEPT ![c] = Close(@)]
    /\ respBody' = [respBody EXCEPT ![c] = Partial]
    /\ log' = [log EXCEPT ![c] = Append(@, Outcome("read_error", 0, ""))]
    /\ IF ErrorStatus(resp[c])
          /\ ~IsRetryable(createAPIError(resp[c], Partial))
       THEN /\ Return(c, resp[c], createAPIError(resp[c], Partial))
            /\ UNCHANGED <<i, backoff, sinceCancel>>
       ELSE IF LastAttempt(i[c])
       THEN /\ Return(c, 0, APIError(resp[c], "", Partial,
                             <<"error reading response body after retries",
                               "unexpected EOF">>))
            /\ UNCHANGED <<i, backoff, sinceCancel>>
       ELSE Iterate(c, i[c] + 1, resp[c])
    /\ Record(c, <<"outcome">>)
    /\ UNCHANGED <<rest, config, lib, ticks, reqBody, sent, tickC, caller, v,
                   ctx, resp, decoded, out, permits, nDispatch, cancelAt>>

\* io.ReadAll(resp.Body) fails after reading Partial; resp.Body.Close()
ReadFail(c) ==
    /\ pc[c] = "read"
    /\ open' = [open EXCEPT ![c] = Close(@)]
    /\ respBody' = [respBody EXCEPT ![c] = Partial]
    /\ log' = [log EXCEPT ![c] = Append(@, Outcome("read_error", 0, ""))]
    /\ IF LastAttempt(i[c])
       THEN /\ Return(c, 0, APIError(resp[c], "", Partial,
                             <<"error reading response body after retries",
                               "unexpected EOF">>))
            /\ UNCHANGED <<i, backoff, sinceCancel>>
       ELSE Iterate(c, i[c] + 1, resp[c])
    /\ Record(c, <<"outcome">>)
    /\ UNCHANGED <<rest, config, lib, ticks, reqBody, sent, tickC, caller, v,
                   ctx, resp, decoded, out, permits, nDispatch, cancelAt>>

\* io.ReadAll(resp.Body) returns body; resp.Body.Close(); then the status
\* check, the decode and the final return.
ReadOK(c, body) ==
    /\ pc[c] = "read"
    /\ open' = [open EXCEPT ![c] = Close(@)]
    /\ respBody' = [respBody EXCEPT ![c] = body]
    /\ log' = [log EXCEPT ![c] = Append(@, Outcome("response", resp[c], ""))]
    /\ IF ErrorStatus(resp[c])
       THEN LET apiErr == createAPIError(resp[c], body) IN
            IF IsRetryable(apiErr) /\ AttemptsRemain(i[c])
            THEN /\ Iterate(c, i[c] + 1, resp[c])
                 /\ UNCHANGED decoded
            ELSE /\ Return(c, resp[c], apiErr)
                 /\ UNCHANGED <<i, backoff, decoded, sinceCancel>>
       ELSE IF DecodeFails(c, body)
            THEN /\ Return(c, resp[c], APIError(resp[c], "", body,
                                <<"error decoding response body",
                                  "invalid character">>))
                 /\ UNCHANGED <<i, backoff, decoded, sinceCancel>>
            ELSE /\ decoded' = [decoded EXCEPT ![c] = v[c]]
                 /\ Return(c, resp[c], NilErr)
                 /\ UNCHANGED <<i, backoff, sinceCancel>>
    /\ Record(c, <<"outcome">>)
    /\ UNCHANGED <<rest, config, lib, ticks, reqBody, sent, tickC, caller, v,
                   ctx, resp, out, permits, nDispatch, cancelAt>>

(* ------------------------- PoolsService.List -------------------------- *)

\* r, err := s.client.Do(ctx, req, &response); if err != nil { return nil,
\* err }; defer r.Body.Close(); return &response, nil.  Registering the
\* deferred call reads r.Body: with r == nil the process panics.
ListOutcome(r) ==
    IF r.err.type # "nil" THEN "error"
    ELSE IF r.resp = 0 THEN "panic"
    ELSE "value"

ListReturn(c) ==
    /\ pc[c] = "done"
    /\ caller[c] = "List"
    /\ pc' = [pc EXCEPT ![c] = "returned"]
    /\ out' = [out EXCEPT ![c] = ListOutcome(ret[c])]
    /\ UNCHANGED <<events, rest, open, config, lib, ticks, reqBody, sent,
                   tickC, caller, v, ctx, i, backoff, resp, respBody, decoded,
                   ret, permits, nDispatch, log, cancelAt, sinceCancel>>

(* --------------------------- environment ------------------------------ *)

\* The caller cancels the context, or its deadline passes, at any moment
\* before Do has returned.
CtxEnd(c, why) ==
    /\ c \in callers
    /\ ctx[c] = "live"
    /\ pc[c] \notin {"done", "returned"}
    /\ ctx' = [ctx EXCEPT ![c] = why]
    /\ cancelAt' = [cancelAt EXCEPT ![c] = pc[c]]
    /\ UNCHANGED <<events, rest, open, config, lib, ticks, reqBody, sent,
                   tickC, pc, caller, v, i, backoff, resp, respBody, decoded,
                   ret, out, permits, nDispatch, log, sinceCancel>>

\* The ticker sending on a channel with room for a second tick: a tick
\* that finds one waiting is queued behind it.
Tick_Accumulates ==
    /\ rateLimiter
    /\ tickC < 2
    /\ tickC' = tickC + 1
    /\ ticks' = ticks + 1
    /\ UNCHANGED <<events, rest, open, config, lib, reqBody, sent, pc, caller,
                   v, ctx, i, backoff, resp, respBody, decoded, ret, out,
                   permits, nDispatch, log, cancelAt, sinceCancel>>

\* The ticker sends on its channel of capacity 1; a tick that finds the
\* channel full is dropped.
Tick ==
    /\ rateLimiter
    /\ tickC = 0
    /\ tickC' = 1
    /\ ticks' = ticks + 1
    /\ UNCHANGED <<events, rest, open, config, lib, reqBody, sent, pc, caller,
                   v, ctx, i, backoff, resp, respBody, decoded, ret, out,
                   permits, nDispatch, log, cancelAt, sinceCancel>>

Next ==
    \/ \E c \in Calls : Call(c)
    \/ \E c \in Calls : GateOpen(c)
    \/ \E c \in Calls : GatePermit(c)
    \/ \E c \in Calls : GateCancelled(c)
    \/ \E c \in Calls : BackoffElapsed(c)
    \/ \E c \in Calls : BackoffCancelled(c)
    \/ \E c \in Calls : Dispatch(c)
    \/ \E c \in Calls : \E e \in NetErrs : ClientDoError(c, e)
    \/ \E c \in Calls : \E s \in Statuses : ClientDoResponse(c, s)
    \/ \E c \in Calls : ReadFail(c)
    \/ \E c \in Calls : \E body \in Bodies : ReadOK(c, body)
    \/ \E c \in Calls : ListReturn(c)
    \/ \E c \in Calls : \E why \in {"context canceled",
                                    "context deadline exceeded"} :
           CtxEnd(c, why)
    \/ Tick

Spec == Init /\ [][Next]_vars

\* The steps of call c that the Go scheduler, the backoff timer and a
\* transport that returns take without outside help.  A ready case of a
\* select is taken, a timer fires, c.client.Do and io.ReadAll return.  The
\* ticker is left out: a tick may go to another call on the same client.
Progress(c) ==
    \/ GateOpen(c)
    \/ GatePermit(c)
    \/ GateCancelled(c)
    \/ BackoffElapsed(c)
    \/ BackoffCancelled(c)
    \/ Dispatch(c)
    \/ \E e \in NetErrs : ClientDoError(c, e)
    \/ \E s \in Statuses : ClientDoResponse(c, s)
    \/ ReadFail(c)
    \/ \E body \in Bodies : ReadOK(c, body)

\* Largest retry count in the runs checked for progress.
FairRetriesBound == 1

FairInit == Init /\ maxRetries <= FairRetriesBound

FairSpec == FairInit /\ [][Next]_vars /\ \A c \in Calls : WF_vars(Progress(c))

(* ---------------------- retries against a dead server ----------------- *)

\* A client built with WithRetryConfig(maxRetries, retryWaitMin,
\* retryWaitMax) and no rate limit.
BackoffInit ==
    /\ InitWith({"c1"})
    /\ DefaultAddress
    /\ NoBody
    /\ ~rateLimiter
    /\ retryWaitMin \in Durations
    /\ retryWaitMax \in Durations

\* One call whose context stays live and whose every dispatch times out:
\* the call goes through every backoff wait its configuration gives.
BackoffNext ==
    \E c \in Calls :
        \/ Call(c)
        \/ GateOpen(c)
        \/ BackoffElapsed(c)
        \/ Dispatch(c)
        \/ ClientDoError(c, "timeout")

BackoffSpec == BackoffInit /\ [][BackoffNext]_vars

(* --------------------------- NewRequest ------------------------------- *)

\* Methods, paths and base addresses the program uses.
Methods == {"GET", "POST", "GE T"}

Paths == {"/pools", "/networks/ethereum/pools?page=1", "pools", ":"}

BaseURLs == {"https://api.dexpaprika.com", "https://api.dexpaprika.com/",
             "https://your-proxy.example.com/dexpaprika",
             "https://your-proxy.example.com/dexpaprika/", ":"}

UserAgents == {"DexPaprika-SDK-Go", "my-app/1.0"}

\* validMethod of net/http: a method is a token
ValidMethod(method) == method \in {"GET", "POST"}

\* The header with Content-Type set whatever the body.
Header_AlwaysContentType(body, agent) ==
    {<<"Content-Type", "application/json">>, <<"Accept", "application/json">>,
     <<"User-Agent", agent>>}

\* req.Header after the three Set calls
Header(body, agent) ==
    (IF body # NilValue THEN {<<"Content-Type", "application/json">>} ELSE {})
    \cup {<<"Accept", "application/json">>, <<"User-Agent", agent>>}

\* The results of NewRequest(method, path, body): the path is parsed and
\* resolved against c.baseURL, the body encoded, the request made by
\* http.NewRequest and given its headers; the first error ends it.
NewRequestResult(method, path, body) ==
    LET rel == Parse(path)
        u == ResolveReference(baseURL, rel.url)
        enc == Encode(body)
    IN  IF ~rel.ok
        THEN [req |-> NoRequest, err |-> Plain(<<"parse", "missing protocol scheme">>)]
        ELSE IF body # NilValue /\ ~enc.ok
        THEN [req |-> NoRequest, err |-> Plain(<<"json: unsupported type">>)]
        ELSE IF ~ValidMethod(method)
        THEN [req |-> NoRequest, err |-> Plain(<<"net/http: invalid method">>)]
        ELSE [req |-> Request(method, String(u), Header(body, userAgent),
                              IF body # NilValue THEN enc.text ELSE ""),
              err |-> NilErr]

\* c.NewRequest(method, path, body)
NewRequest(method, path, body) ==
    /\ built' = [method |-> method, path |-> path, body |-> body,
                 base |-> baseURL, agent |-> userAgent,
                 req |-> NewRequestResult(method, path, body).req,
                 err |-> NewRequestResult(method, path, body).err]
    /\ UNCHANGED <<events, rest, setBase, open, config, ticks, reqBody, sent,
                   tickC, pc, caller, v, ctx, i, backoff, resp, respBody,
                   decoded, ret, out, permits, nDispatch, log, cancelAt,
                   sinceCancel, classified, judged>>

\* SetBaseURL assigning the result of url.Parse before testing the error.
SetBaseURL_AssignsOnError(urlStr) ==
    /\ baseURL' = Parse(urlStr).url
    /\ setBase' = [urlStr |-> urlStr,
                   err |-> IF Parse(urlStr).ok THEN NilErr
                           ELSE Plain(<<"parse", "missing protocol scheme">>)]
    /\ UNCHANGED <<events, rest, maxRetries, retryWaitMin, retryWaitMax,
                   rateLimiter, userAgent, callers, classified, judged, built,
                   open, ticks, reqBody, sent, tickC, pc, caller, v, ctx, i,
                   backoff, resp, respBody, decoded, ret, out, permits,
                   nDispatch, log, cancelAt, sinceCancel>>

\* c.SetBaseURL(urlStr): c.baseURL is replaced when urlStr parses.
SetBaseURL(urlStr) ==
    /\ baseURL' = IF Parse(urlStr).ok THEN Parse(urlStr).url ELSE baseURL
    /\ setBase' = [urlStr |-> urlStr,
                   err |-> IF Parse(urlStr).ok THEN NilErr
                           ELSE Plain(<<"parse", "missing protocol scheme">>)]
    /\ UNCHANGED <<events, rest, maxRetries, retryWaitMin, retryWaitMax,
                   rateLimiter, userAgent, callers, classified, judged, built,
                   open, ticks, reqBody, sent, tickC, pc, caller, v, ctx, i,
                   backoff, resp, respBody, decoded, ret, out, permits,
                   nDispatch, log, cancelAt, sinceCancel>>

\* c.SetUserAgent(userAgent)
SetUserAgent(agent) ==
    /\ userAgent' = agent
    /\ UNCHANGED <<events, rest, open, maxRetries, retryWaitMin, retryWaitMax,
                   rateLimiter, baseURL, callers, lib, ticks, reqBody, sent,
                   tickC, pc, caller, v, ctx, i, backoff, resp, respBody,
                   decoded, ret, out, permits, nDispatch, log, cancelAt,
                   sinceCancel>>

\* NewClient with WithBaseURL, which keeps the default when its argument
\* does not parse, and WithUserAgent.
BuilderInit ==
    /\ InitWith({})
    /\ DefaultRetryWait
    /\ NoBody
    /\ maxRetries = 0
    /\ ~rateLimiter
    /\ \E b \in BaseURLs :
          baseURL = IF Parse(b).ok THEN Parse(b).url
                    ELSE Parse(DefaultBaseURL).url
    /\ userAgent \in UserAgents

BuilderNext ==
    \/ \E method \in Methods : \E path \in Paths : \E body \in BodyValues :
           NewRequest(method, path, body)
    \/ \E urlStr \in BaseURLs : SetBaseURL(urlStr)
    \/ \E agent \in UserAgents : SetUserAgent(agent)

BuilderSpec == BuilderInit /\ [][BuilderNext]_vars

(* ------------------ calls sharing the rate limiter -------------------- *)

\* A client with a rate limit and at most one attempt per call, on which
\* the program makes every call of Calls, one after another or at once.
GateInit ==
    /\ InitWith(Calls)
    /\ DefaultRetryWait
    /\ DefaultAddress
    /\ NoBody
    /\ rateLimiter
    /\ maxRetries <= 0

\* The calls interleave freely; the server answers 200 with a JSON body.
GateNext ==
    \/ \E c \in Calls : Call(c)
    \/ \E c \in Calls : GatePermit(c)
    \/ \E c \in Calls : GateCancelled(c)
    \/ \E c \in Calls : Dispatch(c)
    \/ \E c \in Calls : ClientDoResponse(c, 200)
    \/ \E c \in Calls : ReadOK(c, "{\"error\":\"m\"}")
    \/ \E c \in Calls : CtxEnd(c, "context canceled")
    \/ Tick

GateSpec == GateInit /\ [][GateNext]_vars

(* ------------------- the classifier and IsRetryable ------------------- *)

\* createAPIError(resp, body) for a response with this status
Classify(status, body) ==
    /\ classified' = [status |-> status, body |-> body,
                      err |-> createAPIError(status, body)]
    /\ UNCHANGED <<events, rest, setBase, open, config, ticks, reqBody, sent,
                   tickC, pc, caller, v, ctx, i, backoff, resp, respBody,
                   decoded, ret, out, permits, nDispatch, log, cancelAt,
                   sinceCancel, judged, built>>

\* IsRetryable(e)
CheckRetryable(e) ==
    /\ judged' = [err |-> e, retryable |-> IsRetryable(e)]
    /\ UNCHANGED <<events, rest, setBase, open, config, ticks, reqBody, sent,
                   tickC, pc, caller, v, ctx, i, backoff, resp, respBody,
                   decoded, ret, out, permits, nDispatch, log, cancelAt,
                   sinceCancel, classified, built>>

\* A client on which no Do call is made.
ClassifierInit ==
    /\ InitWith({})
    /\ DefaultRetryWait
    /\ DefaultAddress
    /\ NoBody
    /\ maxRetries = 0
    /\ ~rateLimiter

ClassifierNext ==
    \/ \E status \in ClassifierStatuses : \E body \in ClassifierBodies :
           Classify(status, body)
    \/ \E e \in JudgedErrors : CheckRetryable(e)

ClassifierSpec == ClassifierInit /\ [][ClassifierNext]_vars

(* ----------------------- a request with a body ------------------------ *)

\* A client without rate limit and a request built by NewRequest with a
\* body value.
BodyInit ==
    /\ InitWith({"c1"})
    /\ DefaultRetryWait
    /\ DefaultAddress
    /\ ~rateLimiter
    /\ WithBody

\* One call with a live context, against any transport and server.
BodyNext ==
    \E c \in Calls :
        \/ Call(c)
        \/ GateOpen(c)
        \/ BackoffElapsed(c)
        \/ Dispatch(c)
        \/ \E e \in NetErrs \cup {BodyLengthErr} : ClientDoError(c, e)
        \/ \E s \in Statuses : ClientDoResponse(c, s)
        \/ ReadFail(c)
        \/ \E body \in Bodies : ReadOK(c, body)

BodySpec == BodyInit /\ [][BodyNext]_vars

(* --------------------------- InMemoryCache ---------------------------- *)

\* Latest time on the clock.
MaxClock == 3

\* Values stored in the cache.
CacheValues == {"value1", "value2"}

\* Lifetimes given to Set: negative, zero and positive.
TTLs == (0 - 1)..2

\* The state of the client, which the cache neither reads nor writes.
engine == <<config, lib, open, events, ticks, reqBody, sent, tickC, pc,
            caller, v, ctx, i, backoff, resp, respBody, decoded, ret, out,
            permits, nDispatch, log, cancelAt, sinceCancel>>

\* All but the cache and the clock.
outside == <<engine, cachedVars, wrappers>>

\* The lifetime of the last Set of key k has elapsed at time t: more than
\* ttl has passed since the call.
Elapsed(k, t) == t - lastSet[k].at > lastSet[k].ttl

\* At time t the last Set of key k has been followed by neither Delete(k)
\* nor Clear and its lifetime has not elapsed.
Live(k, t) == lastSet[k].live /\ ~Elapsed(k, t)

\* The expiry test that never finds an item expired.
Expired_Never(item) == FALSE

\* time.Now().After(item.expiresAt)
Expired(item) == clock > item.expiresAt

\* c.Get(key), under the read lock: not found for a key the map does not
\* hold and for an item that has expired.
Get(key) ==
    /\ mu = "free"
    /\ cacheOp' = IF items[key].present /\ ~Expired(items[key])
                  THEN CacheCall("Get", key, items[key].value, TRUE, clock)
                  ELSE CacheCall("Get", key, "", FALSE, clock)
    /\ UNCHANGED <<clock, items, mu, todo, lastSet>>

\* c.Set(key, value, ttl), under the write lock
Set(key, value, ttl) ==
    /\ mu = "free"
    /\ items' = [items EXCEPT ![key] = Item(value, clock + ttl)]
    /\ cacheOp' = CacheCall("Set", key, value, FALSE, clock)
    /\ lastSet' = [lastSet EXCEPT ![key] = SetCall(value, clock, ttl, TRUE)]
    /\ UNCHANGED <<clock, mu, todo>>

\* c.Delete(key), under the write lock
Delete(key) ==
    /\ mu = "free"
    /\ items' = [items EXCEPT ![key] = NoItem]
    /\ cacheOp' = CacheCall("Delete", key, "", FALSE, clock)
    /\ lastSet' = [lastSet EXCEPT ![key].live = FALSE]
    /\ UNCHANGED <<outside, clock, mu, todo>>

\* c.Clear(), under the write lock: a new empty map
Clear ==
    /\ mu = "free"
    /\ items' = [k \in Keys |-> NoItem]
    /\ cacheOp' = CacheCall("Clear", "", "", FALSE, clock)
    /\ lastSet' = [k \in Keys |-> [lastSet[k] EXCEPT !.live = FALSE]]
    /\ UNCHANGED <<outside, clock, mu, todo>>

\* cleanup: the ticker fires, the write lock is taken and the range loop
\* over c.items begins.
CleanupLock ==
    /\ mu = "free"
    /\ mu' = "cleanup"
    /\ todo' = {k \in Keys : items[k].present}
    /\ UNCHANGED <<outside, clock, items, cacheOp, lastSet>>

\* cleanup: one iteration of the range loop, in the map's order
CleanupVisit(key) ==
    /\ mu = "cleanup"
    /\ key \in todo
    /\ todo' = todo \ {key}
    /\ items' = IF Expired(items[key]) THEN [items EXCEPT ![key] = NoItem]
                ELSE items
    /\ UNCHANGED <<outside, clock, mu, cacheOp, lastSet>>

\* cleanup: the loop is over, c.mu.Unlock()
CleanupUnlock ==
    /\ mu = "cleanup"
    /\ todo = {}
    /\ mu' = "free"
    /\ UNCHANGED <<outside, clock, items, todo, cacheOp, lastSet>>

\* Time passes.
ClockTick ==
    /\ clock < MaxClock
    /\ clock' = clock + 1
    /\ UNCHANGED <<outside, items, mu, todo, cacheOp, lastSet>>

\* A client nobody calls, beside the cache.
CacheInit ==
    /\ InitWith({})
    /\ DefaultRetryWait
    /\ DefaultAddress
    /\ NoBody
    /\ maxRetries = 0
    /\ ~rateLimiter

CacheNext ==
    \/ \E key \in Keys : Get(key) /\ UNCHANGED outside
    \/ \E key \in Keys : \E value \in CacheValues : \E ttl \in TTLs :
           Set(key, value, ttl) /\ UNCHANGED outside
    \/ \E key \in Keys : Delete(key)
    \/ Clear
    \/ CleanupLock
    \/ \E key \in Keys : CleanupVisit(key)
    \/ CleanupUnlock
    \/ ClockTick

CacheSpec == CacheInit /\ [][CacheNext]_vars

(* ---------------------------- CachedClient ---------------------------- *)

\* The ttl arguments given to NewCachedClient.
CachedTTLs == 0..2

\* 5 * time.Minute, in minutes
DefaultCacheTTL == 5

\* The methods called: GetNetworks(ctx) and
\* GetPoolDetails(ctx, "ethereum", "0xpool", false).
CachedMethods == {"GetNetworks", "GetPoolDetails"}

\* cacheKey of the method for these arguments
CacheKey(method) ==
    IF method = "GetNetworks" THEN "networks"
    ELSE "pool_details:" \o "ethereum" \o ":" \o "0xpool" \o ":" \o "false"

\* The lifetime the method gives its entry: c.ttl, and c.ttl/5 for pool
\* details.
EntryTTL(method) ==
    IF method = "GetPoolDetails" THEN cttl \div 5 ELSE cttl

\* NewCachedClient(client, nil, ttl): a cache of its own, and the default
\* lifetime for a ttl that is not positive.
NewCachedClient(ttl) ==
    /\ cttl = 0
    /\ cttl' = IF ttl <= 0 THEN DefaultCacheTTL ELSE ttl
    /\ UNCHANGED <<engine, wrappers, cacheVars, cached>>

\* The lookup that never finds the key.
Hit_Never(op) == FALSE

\* found, of c.cache.Get(cacheKey); the type assertion that follows holds,
\* since in a cache of its own a key is written by one method only.
Hit(op) == op.found

\* A method of the CachedClient is called and looks its key up: on a hit
\* it returns the cached value, otherwise it issues the upstream request.
CachedLookup(g, method) ==
    /\ cttl # 0
    /\ cached[g].pc \in {"idle", "done"}
    /\ Get(CacheKey(method))
    /\ LET expect == [hit |-> Live(CacheKey(method), clock),
                      value |-> IF Live(CacheKey(method), clock)
                                THEN lastSet[CacheKey(method)].value ELSE ""]
       IN  cached' = [cached EXCEPT ![g] =
             IF Hit(cacheOp')
             THEN CachedCall("done", method, cacheOp'.value, FALSE, 0, expect)
             ELSE CachedCall("fetch", method, "", FALSE, 1, expect)]
    /\ UNCHANGED <<engine, wrappers, cttl>>

\* The upstream error kept in the cache: the method stores its nil result
\* under the key before it returns the error.
CachedFailed_StoresNil(g) ==
    /\ cached[g].pc = "fetch"
    /\ Set(CacheKey(cached[g].method), "", EntryTTL(cached[g].method))
    /\ cached' = [cached EXCEPT ![g].pc = "done", ![g].err = TRUE]
    /\ UNCHANGED <<engine, wrappers, cttl>>

\* The upstream call returns an error: return nil, err
CachedFailed(g) ==
    /\ cached[g].pc = "fetch"
    /\ cached' = [cached EXCEPT ![g].pc = "done", ![g].err = TRUE]
    /\ UNCHANGED <<engine, wrappers, cacheVars, cttl>>

\* The upstream call returns a value: it is stored and returned.
CachedFetched(g, value) ==
    /\ cached[g].pc = "fetch"
    /\ Set(CacheKey(cached[g].method), value, EntryTTL(cached[g].method))
    /\ cached' = [cached EXCEPT ![g].pc = "done", ![g].value = value]
    /\ UNCHANGED <<engine, wrappers, cttl>>

CachedNext ==
    \/ \E ttl \in CachedTTLs : NewCachedClient(ttl)
    \/ \E g \in Goroutines : \E m \in CachedMethods : CachedLookup(g, m)
    \/ \E g \in Goroutines : CachedFailed(g)
    \/ \E g \in Goroutines : \E value \in CacheValues :
           CachedFetched(g, value)
    \/ CleanupLock
    \/ \E key \in Keys : CleanupVisit(key)
    \/ CleanupUnlock
    \/ ClockTick

CachedSpec == CacheInit /\ [][CachedNext]_vars

(* ----------------------- TransactionsPaginator ------------------------ *)

\* Most pages a paginator fetches.
MaxPage == 2

\* Most error values made while a paginator is used.
MaxErrors == 3

\* The limit arguments given to NewTransactionsPaginator.
Limits == 0..2

\* The ListOptions given to NewPoolsPaginator.
Options == [Page : 0..1, Limit : Limits]

\* The limit set for an argument that is not positive.
DefaultLimit == 50

\* What Pools.GetTransactions answers: a response or an error.
Upstream ==
    {[ok |-> TRUE, resp |-> TransactionsResponse(txs, page, total)] :
        txs \in {<< >>, <<"tx1">>, <<"tx1", "tx2">>},
        page \in 0..MaxPage, total \in 1..3}
    \cup {[ok |-> FALSE, resp |-> NoResponse]}

\* NewTransactionsPaginator(client, networkID, poolAddress, limit)
NewTransactionsPaginator(limit) ==
    /\ ~pager.made
    /\ pager' = [NoPaginator EXCEPT
                   !.made = TRUE,
                   !.kind = "transactions",
                   !.limit = IF limit <= 0 THEN DefaultLimit ELSE limit]
    /\ UNCHANGED <<engine, cacheVars, cachedVars, pageOp, requested, search>>

\* NewPoolsPaginator(client, opts); `page` is p.options.Page and `limit`
\* p.options.Limit.  A nil opts is &ListOptions{Page: 0, Limit: 50}.
NewPoolsPaginator(opts) ==
    /\ ~pager.made
    /\ pager' = [NoPaginator EXCEPT
                   !.made = TRUE,
                   !.kind = "pools",
                   !.page = opts.Page,
                   !.limit = IF opts.Limit <= 0 THEN DefaultLimit
                             ELSE opts.Limit]
    /\ UNCHANGED <<engine, cacheVars, cachedVars, pageOp, requested, search>>

\* p.HasNextPage() without the comparison with total_pages.
HasNextPage_IgnoresTotalPages(p) ==
    IF p.currentResp.nil THEN TRUE
    ELSE IF ~p.err.nil THEN FALSE
    ELSE IF Len(p.currentResp.Transactions) < p.limit THEN FALSE
    ELSE TRUE

\* p.HasNextPage(), the same in the three paginators
HasNextPage(p) ==
    IF p.currentResp.nil THEN TRUE
    ELSE IF ~p.err.nil THEN FALSE
    ELSE IF Len(p.currentResp.Transactions) < p.limit THEN FALSE
    ELSE IF p.currentResp.Page + 1 >= p.currentResp.TotalPages THEN FALSE
    ELSE TRUE

\* p.GetCurrentPage()
GetCurrentPage(p) ==
    IF p.currentResp.nil THEN << >> ELSE p.currentResp.Transactions

\* p.GetError()
GetError(p) == p.err

\* The page counter left as it is.
PlusPlus_Missing(n) == n

\* p.options.Page++ and p.page++
PlusPlus(n) == n + 1

\* The page number GetNextPage passes to the endpoint: a PoolsPaginator
\* increments p.options.Page first unless this is the first page; the
\* others pass p.page.
PageToRequest(p) ==
    IF p.kind = "pools" /\ ~p.currentResp.nil THEN PlusPlus(p.page)
    ELSE p.page

\* p.GetNextPage(ctx), with `answer` what the endpoint returns when it is
\* called.  The TransactionsPaginator increments p.page after a response
\* and takes the ID of the page's last transaction as cursor.
GetNextPage(answer) ==
    /\ pager.made
    /\ pager.page < MaxPage
    /\ pageOp.errors < MaxErrors
    /\ LET fresh == pageOp.errors + 1
           txs == answer.resp.Transactions
           asking == [pager EXCEPT !.page = PageToRequest(pager)]
       IN  IF ~HasNextPage(pager)
           THEN /\ pager' = pager
                /\ requested' = requested
                /\ pageOp' = [op |-> "GetNextPage",
                              ret |-> ErrorValue("no more pages", fresh),
                              prev |-> GetCurrentPage(pager),
                              errors |-> fresh]
           ELSE IF ~answer.ok
           THEN /\ pager' = [asking EXCEPT
                               !.err = ErrorValue("API error", fresh)]
                /\ requested' = Append(requested, asking.page)
                /\ pageOp' = [op |-> "GetNextPage",
                              ret |-> ErrorValue("API error", fresh),
                              prev |-> GetCurrentPage(pager),
                              errors |-> fresh]
           ELSE /\ pager' = [asking EXCEPT
                               !.currentResp = answer.resp,
                               !.page = IF pager.kind = "pools" THEN @
                                        ELSE PlusPlus(@),
                               !.cursor = IF pager.kind = "transactions"
                                             /\ Len(txs) > 0
                                          THEN txs[Len(txs)] ELSE @]
                /\ requested' = Append(requested, asking.page)
                /\ pageOp' = [op |-> "GetNextPage", ret |-> NilError,
                              prev |-> GetCurrentPage(pager),
                              errors |-> pageOp.errors]
    /\ UNCHANGED <<engine, cacheVars, cachedVars, search>>

PagerNext ==
    \/ \E limit \in Limits : NewTransactionsPaginator(limit)
    \/ \E opts \in Options : NewPoolsPaginator(opts)
    \/ \E answer \in Upstream : GetNextPage(answer)

PagerSpec == CacheInit /\ [][PagerNext]_vars

\* An answer of a server that pages as PageInfo describes: the page asked
\* for, numbered from 0, the same total_pages in every answer, `limit`
\* items on every page before the last and at most `limit` from there on.
Serves(answer) ==
    /\ answer.ok
    /\ answer.resp.Page = PageToRequest(pager)
    /\ ~pager.currentResp.nil =>
          answer.resp.TotalPages = pager.currentResp.TotalPages
    /\ Len(answer.resp.Transactions) <= pager.limit
    /\ answer.resp.Page + 1 < answer.resp.TotalPages =>
          Len(answer.resp.Transactions) = pager.limit

\* The paginator used against that server: by the documented loop
\* `for p.HasNextPage() { p.GetNextPage(ctx) }`, and by calls of
\* GetNextPage made after it.
LoopNext ==
    \/ \E limit \in Limits : NewTransactionsPaginator(limit)
    \/ \E opts \in Options : NewPoolsPaginator(opts)
    \/ \E answer \in Upstream : Serves(answer) /\ GetNextPage(answer)

LoopSpec == CacheInit /\ [][LoopNext]_vars

(* --------------------------- SearchService ---------------------------- *)

\* Strings are sequences of characters here.

\* Longest query searched for.
MaxQueryLen == 3

\* The characters of the queries: a letter, the space, and three that have
\* a meaning in a query string.
QueryChars == {"e", " ", "+", "&", "%"}

Queries == UNION {[1..n -> QueryChars] : n \in 0..MaxQueryLen}

\* The two hexadecimal digits of a character's code
Hex(ch) ==
    CASE ch = " " -> <<"2", "0">>
      [] ch = "%" -> <<"2", "5">>
      [] ch = "&" -> <<"2", "6">>
      [] ch = "+" -> <<"2", "B">>
      [] ch = "=" -> <<"3", "D">>
      [] OTHER -> <<"6", "5">>

\* The character with that code, "" when there is none
Unhex(hi, lo) ==
    CASE <<hi, lo>> = <<"2", "0">> -> " "
      [] <<hi, lo>> = <<"2", "5">> -> "%"
      [] <<hi, lo>> = <<"2", "6">> -> "&"
      [] <<hi, lo>> = <<"2", "B">> -> "+"
      [] <<hi, lo>> = <<"3", "D">> -> "="
      [] <<hi, lo>> = <<"6", "5">> -> "e"
      [] OTHER -> ""

\* shouldEscape(c, encodeQueryComponent) is false for letters and digits
Unreserved(ch) == ch \in {"e", "q", "u", "r", "y", "2", "0", "5", "6", "B",
                          "3", "D"}

\* url.QueryEscape(str): a space becomes "+", a reserved character "%XX"
RECURSIVE QueryEscape(_)
QueryEscape(str) ==
    IF str = << >> THEN << >>
    ELSE (CASE Head(str) = " " -> <<"+">>
            [] Unreserved(Head(str)) -> <<Head(str)>>
            [] OTHER -> <<"%">> \o Hex(Head(str)))
         \o QueryEscape(Tail(str))

\* url.QueryUnescape(str): "+" becomes a space, "%XX" the character; ok is
\* `err == nil`.
RECURSIVE QueryUnescape(_)
QueryUnescape(str) ==
    IF str = << >> THEN [ok |-> TRUE, str |-> << >>]
    ELSE IF Head(str) = "%"
    THEN IF Len(str) < 3 \/ Unhex(str[2], str[3]) = ""
         THEN [ok |-> FALSE, str |-> << >>]
         ELSE LET r == QueryUnescape(SubSeq(str, 4, Len(str)))
              IN  [ok |-> r.ok, str |-> <<Unhex(str[2], str[3])>> \o r.str]
    ELSE LET r == QueryUnescape(Tail(str))
         IN  [ok |-> r.ok,
              str |-> <<IF Head(str) = "+" THEN " " ELSE Head(str)>> \o r.str]

\* q.Encode() for q holding the one pair (key, value): both are escaped
ValuesEncode(key, value) == QueryEscape(key) \o <<"=">> \o QueryEscape(value)

\* The part of str before the first ch, all of str when ch is not in it
RECURSIVE Before(_, _)
Before(str, ch) ==
    IF str = << >> \/ Head(str) = ch THEN << >>
    ELSE <<Head(str)>> \o Before(Tail(str), ch)

\* The part of str after the first ch
After(str, ch) == SubSeq(str, Len(Before(str, ch)) + 2, Len(str))

\* r.URL.Query().Get(key) on the server: the query string is cut at "&",
\* each pair at its first "=", key and value are unescaped, a pair that
\* does not unescape is dropped; the first value of the key, or "".
RECURSIVE QueryGet(_, _)
QueryGet(raw, key) ==
    IF raw = << >> THEN << >>
    ELSE LET pair == Before(raw, "&")
             k == QueryUnescape(Before(pair, "="))
             val == QueryUnescape(After(pair, "="))
         IN  IF k.ok /\ val.ok /\ k.str = key THEN val.str
             ELSE QueryGet(After(raw, "&"), key)

\* The name of the parameter
QueryKey == <<"q", "u", "e", "r", "y">>

\* s.Search(ctx, query): the request for /search gets the parameter
\* query=url.QueryEscape(query) through url.Values, is sent, and the server
\* reads the parameter.
Search(query) ==
    /\ search' = [called |-> TRUE, query |-> query,
                  RawQuery |-> ValuesEncode(QueryKey, QueryEscape(query)),
                  received |->
                      QueryGet(ValuesEncode(QueryKey, QueryEscape(query)),
                               QueryKey)]
    /\ UNCHANGED <<engine, cacheVars, cachedVars, pager, pageOp,
                   requested>>

SearchNext == \E query \in Queries : Search(query)

SearchSpec == CacheInit /\ [][SearchNext]_vars

(* ------------------------- vocabulary of the claims ------------------- *)

\* Do has returned
Done(c) == pc[c] \in {"done", "returned"}

\* the context was never cancelled and its deadline never passed
NeverCancelled(c) == ctx[c] = "live"

SuccessStatus(s) == s >= 200 /\ s < 300

RetryableStatus(s) == s = 429 \/ s >= 500

NonRetryableStatus(s) == ~SuccessStatus(s) /\ ~RetryableStatus(s)

\* the attempt ended in a transport error, a 429 or a status >= 500
RetryableOutcome(o) ==
    \/ o.kind = "transport_error"
    \/ o.kind = "response" /\ RetryableStatus(o.status)

Attempts(c) == 1..Len(log[c])

LastOutcome(c) == log[c][Len(log[c])]

(* ------------------------------- C1 ----------------------------------- *)

\* C1: with maxRetries = N >= 0, when every dispatch of a call fails with a
\* transport error and the context is never cancelled, the call never makes
\* more than N+1 dispatches, and when it has returned it has made exactly
\* N+1 and returned a nil response with an *APIError of status code 0 that
\* wraps the transport error of the last dispatch.
C1_PersistentTransportFailure ==
    \A c \in Calls :
        ( /\ maxRetries >= 0
          /\ NeverCancelled(c)
          /\ \A k \in Attempts(c) : log[c][k].kind = "transport_error" )
        => /\ nDispatch[c] <= maxRetries + 1
           /\ Done(c) =>
                /\ Len(log[c]) = maxRetries + 1
                /\ nDispatch[c] = maxRetries + 1
                /\ ret[c].resp = 0
                /\ ret[c].err.type = "APIError"
                /\ ret[c].err.StatusCode = 0
                /\ ErrorsIs(ret[c].err, LastOutcome(c).cause)

C1_Witness ==
    \E c \in Calls :
        /\ Done(c)
        /\ maxRetries = 2
        /\ NeverCancelled(c)
        /\ nDispatch[c] = 3
        /\ \A k \in Attempts(c) : log[c][k].kind = "transport_error"
        /\ Len(log[c]) = 3
        /\ log[c][1].cause # log[c][3].cause
        /\ ErrorsIs(ret[c].err, log[c][3].cause)

(* ------------------------------- C2 ----------------------------------- *)

C3_SuccessAfterRetries ==
    \A c \in Calls : \A n \in Attempts(c) :
        ( /\ log[c][n].kind = "response"
          /\ SuccessStatus(log[c][n].status)
          /\ n - 1 <= maxRetries
          /\ \A j \in 1..(n - 1) : RetryableOutcome(log[c][j]) )
        => /\ n = Len(log[c])
           /\ Done(c)
           /\ nDispatch[c] = n
           /\ (~v[c] \/ Decodable(respBody[c])) =>
                /\ ret[c].resp = log[c][n].status
                /\ ret[c].err = NilErr
                /\ decoded[c] = v[c]

C3_Witness ==
    \E c \in Calls :
        /\ Done(c)
        /\ Len(log[c]) = 3
        /\ log[c][1].kind = "transport_error"
        /\ log[c][2] = Outcome("response", 503, "")
        /\ log[c][3] = Outcome("response", 200, "")
        /\ nDispatch[c] = 3
        /\ v[c] /\ decoded[c]
        /\ ret[c].resp = 200 /\ ret[c].err = NilErr

(* ------------------------------- C4 ----------------------------------- *)

C5_SuccessOrError ==
    \A c \in Calls :
        ret[c].set =>
            /\ ret[c].resp # 0 \/ ret[c].err.type # "nil"
            /\ nDispatch[c] = 0 => ret[c].err.type # "nil"

(* ------------------------------- C6 ----------------------------------- *)

\* C6: a PoolsService.List call ends in a decoded value or an error value;
\* it never dereferences a nil response.
C6_WrapperNeverPanics ==
    \A c \in Calls :
        /\ out[c] # "panic"
        /\ pc[c] = "returned" => out[c] \in {"value", "error"}

(* ------------------------------- C7 ----------------------------------- *)

\* the context was cancelled before the call's first dispatch or while the
\* call was in its backoff wait
CancelledBeforeDispatchOrInBackoff(c) ==
    /\ ctx[c] = "context canceled"
    /\ \/ nDispatch[c] = sinceCancel[c].dispatch
       \/ cancelAt[c] = "backoff"

\* C7: after a cancellation before the first dispatch or in the backoff wait
\* the transport is not invoked again, and the call returns a nil response
\* and an error that is context.Canceled.
C7_NoDispatchAfterCancel ==
    \A c \in Calls :
        CancelledBeforeDispatchOrInBackoff(c)
        => /\ sinceCancel[c].dispatch = 0
           /\ Done(c) => /\ ret[c].resp = 0
                         /\ ErrorsIs(ret[c].err, "context canceled")

(* ------------------------------- C8 ----------------------------------- *)

\* the client has a rate limit and the context ended no later than the
\* gating step
CancelledByGate(c) ==
    /\ rateLimiter
    /\ cancelAt[c] \in {"idle", "gate"}

\* C8: on a rate-limited client a call whose context ended no later than the
\* gating step makes no dispatch and returns a nil response and the
\* context's error, whether or not a tick is waiting in the channel.
C8_NoDispatchWhenCancelledAtGate ==
    \A c \in Calls :
        CancelledByGate(c)
        => /\ nDispatch[c] = 0
           /\ Done(c) => ret[c] = [resp |-> 0, err |-> CtxErr(c), set |-> TRUE]

(* ------------------------------- C9 ----------------------------------- *)

\* the call has been made and has not returned
InProgress(c) == pc[c] \notin {"idle", "done", "returned"}

\* the context ended while the call was in progress
EndedInProgress(c) == cancelAt[c] \notin {"none", "idle"}

C10_DecodeErrorNotRetried ==
    \A c \in Calls :
        ( /\ Len(log[c]) > 0
          /\ LastOutcome(c).kind = "response"
          /\ SuccessStatus(LastOutcome(c).status)
          /\ v[c]
          /\ ~Decodable(respBody[c]) )
        => /\ Done(c)
           /\ nDispatch[c] = Len(log[c])
           /\ ret[c].resp = LastOutcome(c).status
           /\ ret[c].err.type = "APIError"
           /\ ret[c].err.StatusCode = LastOutcome(c).status
           /\ ret[c].err.RawResponse = respBody[c]
           /\ ErrorsIs(ret[c].err, "error decoding response body")
           /\ ~decoded[c]

C10_Witness ==
    \E c \in Calls :
        /\ Done(c)
        /\ maxRetries = 2
        /\ i[c] = 0
        /\ log[c] = << Outcome("response", 200, "") >>
        /\ v[c]
        /\ respBody[c] = "not json"
        /\ nDispatch[c] = 1
        /\ ErrorsIs(ret[c].err, "error decoding response body")

(* ------------------------------- C11 ---------------------------------- *)

\* min(retryWaitMin * 2^(k-1), retryWaitMax) over the integers
CappedDoubling(k) ==
    LET p == retryWaitMin * Pow2(k - 1)
    IN  IF p < retryWaitMax THEN p ELSE retryWaitMax

\* C11: the wait a call makes before attempt k (1 <= k <= maxRetries) is
\* min(retryWaitMin * 2^(k-1), retryWaitMax), the product being the
\* mathematical one, for every retryWaitMin and retryWaitMax configured.
C11_BackoffIsCappedDoubling ==
    \A c \in Calls :
        (pc[c] = "backoff" /\ i[c] \in 1..maxRetries)
        => backoff[c] = CappedDoubling(i[c])

(* ------------------------------- C12 ---------------------------------- *)

\* C12: for a request built with a body, the request of every dispatch of a
\* call, the first and every retry, has a body stream that yields the full
\* serialized body, whatever the attempts before it read.
C12_EveryAttemptSendsFullBody ==
    \A c \in Calls :
        reqBody[c] # "none" =>
            \A k \in 1..Len(sent[c]) : sent[c][k] = "full"

(* ------------------------------- C13 ---------------------------------- *)

\* C13: every non-nil error a Do call returns is an *APIError that wraps
\* its cause, and it carries the status code and the body read whenever the
\* call's last dispatch obtained a response.
C13_EveryErrorIsTyped ==
    \A c \in Calls :
        (ret[c].set /\ ret[c].err.type # "nil")
        => /\ ret[c].err.type = "APIError"
           /\ Len(ret[c].err.Err) > 0
           /\ resp[c] # 0 => /\ ret[c].err.StatusCode = resp[c]
                              /\ ret[c].err.RawResponse = respBody[c]

(* ------------------------------- C14 ---------------------------------- *)

\* the string in the body's JSON field "error", "" when there is none
ErrorFieldOf(body) ==
    IF JSONDoc(body).valid /\ JSONDoc(body).error.kind = "string"
    THEN JSONDoc(body).error.str
    ELSE ""

\* C14: for every status outside [200,300) and every body the classifier
\* returns an *APIError with that status and the raw body, whose kind is
\* 400 -> ErrBadRequest, 401 -> ErrUnauthorized, 403 -> ErrForbidden,
\* 404 -> ErrNotFound, 429 -> ErrRateLimit, 500 -> ErrInternalServerError,
\* 503 -> ErrServiceUnavailable, any other status >= 500 ->
\* ErrRetryableError, anything else -> "unexpected status code", and whose
\* message is the body's JSON field "error" when present and "" otherwise.
C14_ClassifierMapsStatus ==
    LET st == classified.status
        e == classified.err
    IN  st # 0 =>
          /\ e.type = "APIError"
          /\ e.StatusCode = st
          /\ e.RawResponse = classified.body
          /\ e.Message = ErrorFieldOf(classified.body)
          /\ st = 400 => e.Err = <<"bad request">>
          /\ st = 401 => e.Err = <<"unauthorized">>
          /\ st = 403 => e.Err = <<"forbidden">>
          /\ st = 404 => e.Err = <<"not found">>
          /\ st = 429 => e.Err = <<"rate limit exceeded">>
          /\ st = 500 => e.Err = <<"internal server error">>
          /\ st = 503 => e.Err = <<"service unavailable">>
          /\ (st >= 500 /\ st \notin {500, 503}) => e.Err = <<"retryable error">>
          /\ (st < 500 /\ st \notin {400, 401, 403, 404, 429})
                => e.Err = <<"unexpected status code">>

C14_Witness ==
    /\ classified.status = 404
    /\ classified.body = "{\"error\":\"Resource not found\"}"
    /\ classified.err.Message = "Resource not found"
    /\ ErrorsIs(classified.err, "not found")

(* ------------------------------- C15 ---------------------------------- *)

\* e is a Typed Error: errors.As finds an *APIError in it
Typed(e) == AsAPIError(e).type = "APIError"

\* e wraps ErrRetryableError, ErrTimeout or ErrServiceUnavailable
WrapsRetryable(e) ==
    \E m \in {"retryable error", "request timeout", "service unavailable"} :
        ErrorsIs(e, m)

\* the Retryable column of the error taxonomy, by status: RateLimited (429)
\* and the server-side failures (500, 503, any other status from 500 up)
TaxonomyRetryable(st) == st = 429 \/ st >= 500

\* C15: IsRetryable(err) is true exactly when err is a Typed Error with
\* status 429 or in 500..599, or wraps ErrRetryableError, ErrTimeout or
\* ErrServiceUnavailable; it is false for nil, for errors that are not Typed
\* Errors and wrap none of the three, and for Typed Errors of status 400,
\* 401, 403 or 404 (which wrap none of the three); for the Typed Error the
\* classifier gives a status, it is the Retryable column of the taxonomy.
C15_IsRetryableMatchesTaxonomy ==
    LET e == judged.err
        a == AsAPIError(e)
    IN  /\ judged.retryable <=>
              \/ Typed(e) /\ (a.StatusCode = 429 \/ a.StatusCode \in 500..599)
              \/ WrapsRetryable(e)
        /\ e = NilErr => ~judged.retryable
        /\ (~Typed(e) /\ ~WrapsRetryable(e)) => ~judged.retryable
        /\ ( /\ Typed(e)
              /\ a.StatusCode \in {400, 401, 403, 404}
              /\ ~WrapsRetryable(e) ) => ~judged.retryable
        /\ \A st \in ClassifierStatuses : \A body \in ClassifierBodies :
              e = createAPIError(st, body)
              => (judged.retryable <=> TaxonomyRetryable(st))

C15_Witness ==
    /\ judged.err = createAPIError(999, "")
    /\ judged.retryable
    /\ ~(judged.err.StatusCode \in 500..599)

(* ------------------------------- C16 ---------------------------------- *)

\* the call has passed the gating step: it is in the retry loop, or it has
\* returned otherwise than from the gate's ctx.Done() case
PassedGate(c) ==
    \/ pc[c] \in {"backoff", "dispatch", "inflight", "read"}
    \/ Done(c) /\ ~(ret[c].err.type = "context" /\ nDispatch[c] = 0)

\* C16: on a client with a rate limit, however its calls interleave, the
\* number of calls that have passed the gate never exceeds the number of
\* ticks emitted: each tick lets at most one call pass, and a second call
\* passes on another tick than the first.
C16_OneCallPerTick ==
    rateLimiter =>
        /\ Cardinality({c \in Calls : PassedGate(c)}) <= ticks
        /\ Cardinality({c \in Calls : PassedGate(c)}) + tickC = ticks

C16_Witness ==
    /\ rateLimiter
    /\ pc["c1"] = "inflight"
    /\ pc["c2"] = "inflight"
    /\ ticks = 2

(* ------------------------------- C17 ---------------------------------- *)

\* C17: once NewClient has returned, no operation changes the client's
\* configuration: base address, User-Agent value, retry policy, rate limit.
C17_ConfigurationNeverChanges ==
    [][UNCHANGED <<baseURL, userAgent, maxRetries, retryWaitMin, retryWaitMax,
                   rateLimiter>>]_vars

(* ------------------------------- C18 ---------------------------------- *)

\* NewRequest has been called and returned a request
Built == ~built.req.nil

\* C18: every request NewRequest builds has Accept: application/json and
\* the client's User-Agent; it has Content-Type: application/json exactly
\* when a body value was supplied, and no Content-Type at all for a nil
\* body; the body of a request built with a body value decodes to that
\* value.
C18_HeadersAndBodyRoundTrip ==
    Built =>
        /\ <<"Accept", "application/json">> \in built.req.Header
        /\ <<"User-Agent", built.agent>> \in built.req.Header
        /\ (<<"Content-Type", "application/json">> \in built.req.Header)
              <=> built.body # NilValue
        /\ built.body = NilValue =>
              \A h \in built.req.Header : h[1] # "Content-Type"
        /\ built.body # NilValue => Decode(built.req.Body) = built.body

C18_Witness ==
    /\ Built
    /\ built.method = "POST"
    /\ built.body = Value("struct", "a<b")
    /\ built.req.Body # "{\"name\":\"a<b\"}\n"
    /\ built.agent = "my-app/1.0"
    /\ <<"Content-Type", "application/json">> \in built.req.Header

(* ------------------------------- C19 ---------------------------------- *)

\* NewRequest was called with a path that does not parse or a body value
\* that has no JSON representation
InvalidInput ==
    /\ built.method # ""
    /\ \/ ~Parse(built.path).ok
       \/ built.body # NilValue /\ ~Encode(built.body).ok

\* C19: NewRequest given an unparsable path or a body value without JSON
\* representation returns no request and an *APIError of kind
\* InvalidRequest.
C19_InvalidRequestIsTyped ==
    InvalidInput =>
        /\ built.req.nil
        /\ built.err.type = "APIError"
        /\ ErrorsIs(built.err, "invalid request")

(* ------------------------------- C20 ---------------------------------- *)

\* C20: for every base address B and every path P beginning with "/", the
\* URL of the request NewRequest builds is B followed by P.
C20_URLIsBaseThenPath ==
    (Built /\ Parse(built.path).url.rooted)
    => built.req.URL = String(built.base) \o built.path

(* ------------------------------- C21 ---------------------------------- *)

\* Call c is between attempts or has returned: it is not in c.client.Do
\* and not reading a response.
BetweenAttempts(c) == pc[c] \in {"backoff", "dispatch", "done", "returned"}

\* C21: whenever a Do call starts its next attempt or has returned, on any
\* exit path, every response body the transport gave it has been closed;
\* the only open body is that of the response being read.
C21_NoOpenBodyLeftBehind ==
    \A c \in Calls :
        /\ BetweenAttempts(c) => open[c] = 0
        /\ open[c] \in 0..1
        /\ open[c] = 1 => pc[c] = "read"

\* A call has returned on cancellation observed after a response came, and
\* another after a retry that followed a response read in full.
C21_Witness ==
    /\ pc["c1"] = "done"
    /\ Len(log["c1"]) = 2
    /\ log["c1"][1].kind = "response"
    /\ log["c1"][2].kind = "ctx_done"
    /\ log["c1"][2].status # 0
    /\ open["c1"] = 0

(* ------------------------------- C22 ---------------------------------- *)

\* The step is a call of SetBaseURL.
SetBaseURLCalled == setBase' # setBase

\* C22: a call of SetBaseURL with a URL that parses returns nil and makes
\* that URL the client's base address; with a URL that does not parse it
\* returns an error and changes no field of the client, base address
\* included.  Neither changes any field but the base address.
C22_SetBaseURLReplacesOrKeeps ==
    [][SetBaseURLCalled =>
         /\ IF Parse(setBase'.urlStr).ok
            THEN /\ setBase'.err = NilErr
                 /\ baseURL' = Parse(setBase'.urlStr).url
            ELSE /\ setBase'.err # NilErr
                 /\ baseURL' = baseURL
         /\ UNCHANGED <<userAgent, maxRetries, retryWaitMin, retryWaitMax,
                        rateLimiter>>]_vars

\* SetBaseURL has failed on a client whose base address is not the default,
\* and the address is still there.
C22_Witness ==
    /\ setBase.urlStr = ":"
    /\ setBase.err # NilErr
    /\ baseURL = Parse("https://your-proxy.example.com/dexpaprika").url

(* ------------------------------- C23 ---------------------------------- *)

\* C23: whatever the interleaving of Get, Set, Delete, Clear and the
\* cleanup, Get(k) returns (v, true) exactly when the most recent
\* Set(k, v, ttl) was followed by neither Delete(k) nor Clear and its ttl
\* has not elapsed, and (nil, false) otherwise, also for an expired item
\* the cleanup has left in the map; the cleanup removes no unexpired item.
C23_GetMatchesLastSet ==
    /\ cacheOp.op = "Get" =>
          IF Live(cacheOp.key, cacheOp.at)
          THEN cacheOp.found /\ cacheOp.value = lastSet[cacheOp.key].value
          ELSE ~cacheOp.found /\ cacheOp.value = ""
    /\ \A k \in Keys :
          Live(k, clock) =>
              items[k] = Item(lastSet[k].value, lastSet[k].at + lastSet[k].ttl)

\* Get has not found an expired item that is still in the map, after a
\* cleanup that removed the other key's item.
C23_Witness ==
    /\ cacheOp.op = "Get"
    /\ ~cacheOp.found
    /\ items[cacheOp.key].present
    /\ lastSet[cacheOp.key].live
    /\ \E k \in Keys : lastSet[k].live /\ ~items[k].present

(* ------------------------------- C24 ---------------------------------- *)

\* C24: a call of a CachedClient method made while the entry an earlier
\* successful call with the same arguments stored has not outlived its TTL
\* returns that entry's value and issues no upstream request; a call made
\* when there is no such entry, or after its TTL has elapsed, issues one
\* upstream request.
C24_CachedUntilTTL ==
    \A g \in Goroutines :
        cached[g].pc = "done" =>
            IF cached[g].expect.hit
            THEN /\ cached[g].upstream = 0
                 /\ ~cached[g].err
                 /\ cached[g].value = cached[g].expect.value
            ELSE cached[g].upstream = 1

\* One goroutine was served from the cache; the other, calling the same
\* method after the entry's TTL had elapsed and before any cleanup, went
\* upstream and got the newer value.
C24_Witness ==
    /\ cached["g1"].pc = "done"
    /\ cached["g1"].method = "GetNetworks"
    /\ cached["g1"].expect.hit
    /\ cached["g1"].value = "value1"
    /\ cached["g2"].pc = "done"
    /\ cached["g2"].method = "GetNetworks"
    /\ ~cached["g2"].expect.hit
    /\ cached["g2"].value = "value2"
    /\ clock > lastSet["networks"].at

(* ------------------------------- C25 ---------------------------------- *)

\* C25: after a call of GetNextPage that returned an error, GetError
\* returns that same error value and GetCurrentPage returns the page it
\* returned before the call; while GetNextPage has never returned an
\* error, GetError returns nil.
C25_FailureIsReported ==
    /\ (pageOp.op = "GetNextPage" /\ ~pageOp.ret.nil) =>
          /\ GetError(pager) = pageOp.ret
          /\ GetCurrentPage(pager) = pageOp.prev
    /\ pageOp.errors = 0 => GetError(pager).nil

(* ------------------------------- C26 ---------------------------------- *)

\* C26: the value of the parameter `query` the server reads from the
\* request Search(ctx, q) sends is q, whatever characters q has.
C26_ServerReceivesQuery ==
    search.called => search.received = search.query

(* ------------------------------- C27 ---------------------------------- *)

\* Do has been called
Started(c) == pc[c] # "idle"

\* Do returned from the permit wait, on ctx.Done()
ReturnedFromGate(c) ==
    Done(c) /\ ret[c].err.type = "context" /\ nDispatch[c] = 0

\* C27 as claimed: in every state of a Do call the attempt counter is in
\* 0..maxRetries and the call has made at most maxRetries+1 dispatches;
\* with maxRetries = 0 the call is never in a backoff wait and has made
\* exactly one dispatch when it has returned.
C27_CounterWithinRetries ==
    \A c \in Calls :
        Started(c) =>
            /\ i[c] \in 0..maxRetries
            /\ nDispatch[c] <= maxRetries + 1
            /\ maxRetries = 0 =>
                  /\ pc[c] # "backoff"
                  /\ Done(c) => nDispatch[c] = 1

\* n, or 0 when n is negative
AtLeast0(n) == IF n < 0 THEN 0 ELSE n

\* C27 amended: the attempt counter is in 0..max(maxRetries, 0) and the
\* call has made at most max(maxRetries+1, 0) dispatches, never more than
\* the counter plus one; with maxRetries = 0 the call is never in a backoff
\* wait, makes at most one dispatch, and has made exactly one when it has
\* returned otherwise than from the permit wait on cancellation.
C27_CounterBounded ==
    \A c \in Calls :
        Started(c) =>
            /\ i[c] \in 0..AtLeast0(maxRetries)
            /\ nDispatch[c] <= AtLeast0(maxRetries + 1)
            /\ nDispatch[c] <= i[c] + 1
            /\ maxRetries = 0 =>
                  /\ pc[c] # "backoff"
                  /\ nDispatch[c] <= 1
                  /\ (Done(c) /\ ~ReturnedFromGate(c)) => nDispatch[c] = 1

\* A call has used every attempt it had: the counter is at maxRetries and
\* maxRetries+1 dispatches were made.
C27_Witness ==
    /\ maxRetries = MaxRetriesBound
    /\ Done("c1")
    /\ i["c1"] = maxRetries
    /\ nDispatch["c1"] = maxRetries + 1
    /\ Len(log["c1"]) = maxRetries + 1

(* ------------------------------- C28 ---------------------------------- *)

\* The exchanges of call c that have begun and have not ended in an
\* outcome.
InFlight(c) == nDispatch[c] - Len(log[c])

\* C28: a Do call has at most one HTTP exchange in flight, and every
\* attempt has ended in exactly one outcome when the next attempt begins
\* and when the call returns: one exchange is in flight from the dispatch
\* to the end of the body read, none at any other moment.
C28_OneExchangeOneOutcome ==
    \A c \in Calls :
        /\ InFlight(c) \in 0..1
        /\ pc[c] \in {"inflight", "read"} => InFlight(c) = 1
        /\ pc[c] \notin {"inflight", "read"} => InFlight(c) = 0
        /\ \A k \in Attempts(c) :
              log[c][k].kind \in {"transport_error", "ctx_done", "read_error",
                                  "response"}

\* The second exchange of a call is in flight, the first has its outcome.
C28_Witness ==
    /\ pc["c1"] = "inflight"
    /\ nDispatch["c1"] = 2
    /\ Len(log["c1"]) = 1
    /\ log["c1"][1].kind = "response"

(* ------------------------------- C29 ---------------------------------- *)

\* The event at place p of call c is the call's first dispatch.
FirstDispatch(c, p) ==
    /\ events[c][p] = "dispatch"
    /\ \A q \in 1..(p - 1) : events[c][q] # "dispatch"

\* C29: in the events of a Do call, what precedes the first dispatch is the
\* receipt of the permit on a client with a rate limit and nothing on
\* another, so no backoff wait; and what lies between a dispatch and the
\* next is that dispatch's outcome and then the beginning of one backoff
\* wait.
C29_EventsInOrder ==
    \A c \in Calls : \A p \in 1..Len(events[c]) :
        events[c][p] = "dispatch" =>
            IF FirstDispatch(c, p)
            THEN SubSeq(events[c], 1, p - 1)
                   = (IF rateLimiter THEN <<"permit">> ELSE << >>)
            ELSE /\ p > 3
                 /\ events[c][p - 1] = "backoff"
                 /\ events[c][p - 2] = "outcome"
                 /\ events[c][p - 3] = "dispatch"

\* A rate-limited call has made its second dispatch.
C29_Witness ==
    events["c1"] = <<"permit", "dispatch", "outcome", "backoff", "dispatch">>

(* ------------------------------- C30 ---------------------------------- *)

\* C30 as claimed: a Do call on a client with a rate limit that has
\* returned has consumed exactly one permit, before anything else it did,
\* and has made at most maxRetries dispatches more than that.
C30_OnePermitPerCall ==
    \A c \in Calls :
        (rateLimiter /\ Done(c)) =>
            /\ permits[c] = 1
            /\ events[c] # << >> /\ events[c][1] = "permit"
            /\ nDispatch[c] - permits[c] <= maxRetries

\* C30 amended: a Do call on a client with a rate limit consumes at most
\* one permit, before anything else it does, and none after; it has
\* consumed exactly one when it is past the permit wait, whatever the
\* number of its attempts, and none when it returned from the permit wait
\* on cancellation; its dispatches are at most maxRetries+1 for the one
\* permit.
C30_OnePermitPerGatedCall ==
    \A c \in Calls :
        rateLimiter =>
            /\ permits[c] \in 0..1
            /\ PassedGate(c) <=> permits[c] = 1
            /\ ReturnedFromGate(c) => permits[c] = 0
            /\ \A p \in 1..Len(events[c]) :
                  events[c][p] = "permit" <=> p = 1
            /\ nDispatch[c] <= permits[c] * AtLeast0(maxRetries + 1)

\* A call has made maxRetries+1 dispatches on its one permit.
C30_Witness ==
    /\ rateLimiter
    /\ maxRetries = MaxRetriesBound
    /\ Done("c1")
    /\ permits["c1"] = 1
    /\ nDispatch["c1"] = maxRetries + 1
    /\ ticks = 1

(* ------------------------------- C31 ---------------------------------- *)

\* the call receives from rateLimiter.C in this step
TakesPermit(c) == permits'[c] = permits[c] + 1

\* C31: on a client with a rate limit at most one permit is ever pending
\* in the ticker's channel, however long no call has been waiting; a call
\* that passes the gate takes the pending permit and leaves none, so after
\* an idle period only one call passes without a newly emitted permit, and
\* the next pass needs a tick emitted after it.
C31_PermitsDoNotAccumulate ==
    [][ rateLimiter =>
          /\ tickC \in 0..1 /\ tickC' \in 0..1
          /\ \A c \in Calls :
                TakesPermit(c) =>
                    /\ tickC = 1 /\ tickC' = 0
                    /\ ticks' = ticks
                    /\ \A d \in Calls \ {c} : ~TakesPermit(d) ]_vars

\* After a tick emitted while both calls were idle, one call has passed
\* the gate and is being answered; the other waits at the gate with no
\* permit pending.
C31_Witness ==
    /\ rateLimiter
    /\ ticks = 1
    /\ tickC = 0
    /\ pc["c1"] = "inflight"
    /\ pc["c2"] = "gate"
    /\ permits["c1"] = 1
    /\ permits["c2"] = 0

(* ------------------------------- C32 ---------------------------------- *)

\* reading the body of the response to call c fails in this step
ReadFails(c) ==
    /\ Len(log'[c]) = Len(log[c]) + 1
    /\ log'[c][Len(log'[c])].kind = "read_error"

\* C32: when reading a response body fails, Do goes on to the next attempt
\* if attempts remain, whatever the status of the response, and on the last
\* attempt it returns a nil response with a typed error that carries the
\* status code of the response and the bytes read so far.
C32_ReadFailureRetriedOrTyped ==
    [][ \A c \in Calls :
          ReadFails(c) =>
              IF i[c] < maxRetries
              THEN /\ pc'[c] = "backoff"
                   /\ i'[c] = i[c] + 1
                   /\ ret'[c] = ret[c]
              ELSE /\ pc'[c] = "done"
                   /\ ret'[c].resp = 0
                   /\ Typed(ret'[c].err)
                   /\ ret'[c].err.StatusCode = resp[c]
                   /\ ret'[c].err.RawResponse = respBody'[c]
                   /\ respBody'[c] = Partial ]_vars

\* The body of a 400 response could not be read on the first attempt nor
\* on the second, the last: the call made both and returned the typed
\* error with status 400 and the partial body.
C32_Witness ==
    /\ maxRetries = 1
    /\ Done("c1")
    /\ nDispatch["c1"] = 2
    /\ Len(log["c1"]) = 2
    /\ log["c1"][1].kind = "read_error"
    /\ log["c1"][2].kind = "read_error"
    /\ resp["c1"] = 400
    /\ ret["c1"].resp = 0
    /\ ret["c1"].err.StatusCode = 400
    /\ ret["c1"].err.RawResponse = Partial

(* ------------------------------- C33 ---------------------------------- *)

\* c.client.Do returns to call c in this step
DispatchReturns(c) == pc[c] = "inflight" /\ pc'[c] # "inflight"

\* C33: if the context of the call is done when a dispatch returns, with a
\* response of any status, 2xx included, or with a transport error, Do
\* returns a nil response and the context's error at once: the destination
\* is left undecoded, no response body stays open, the loop counter does
\* not advance, and the call that has returned dispatches nothing more.
C33_DoneContextWinsOverResponse ==
    [][ \A c \in Calls :
          /\ (DispatchReturns(c) /\ CtxDone(c)) =>
                /\ pc'[c] = "done"
                /\ ret'[c] = [resp |-> 0, err |-> CtxErr(c), set |-> TRUE]
                /\ ~decoded'[c]
                /\ open'[c] = 0
                /\ i'[c] = i[c]
                /\ log'[c][Len(log'[c])].kind = "ctx_done"
          /\ Done(c) =>
                /\ nDispatch'[c] = nDispatch[c]
                /\ decoded'[c] = decoded[c]
                /\ ret'[c] = ret[c] ]_vars

\* A call with a destination and retries left got a 200 response to its
\* first dispatch after its context had ended, and returned the context's
\* error without decoding.
C33_Witness ==
    /\ maxRetries = MaxRetriesBound
    /\ Done("c1")
    /\ v["c1"]
    /\ cancelAt["c1"] = "inflight"
    /\ log["c1"] = <<Outcome("ctx_done", 200, "")>>
    /\ ret["c1"].resp = 0
    /\ ret["c1"].err.type = "context"
    /\ ~decoded["c1"]
    /\ open["c1"] = 0
    /\ nDispatch["c1"] = 1

(* ------------------------------- C34 ---------------------------------- *)

\* the ticker of the rate limiter keeps emitting
TickerRuns == WF_vars(Tick)

\* C34: every Do call that was made returns, whatever the attempts' outcomes
\* are, provided each dispatch returns (with an error, or with a response
\* whose body read ends) and, on a client with a rate limit, the ticker
\* emits a permit or the context of the call ends.
C34_EveryCallReturns ==
    \A c \in Calls :
        (rateLimiter => (TickerRuns \/ <>CtxDone(c)))
            => (Started(c) ~> Done(c))

\* A call on a client with a rate limit waited for its permit and used
\* every attempt it had, each answered 503, before it returned with its
\* context still live.
C34_Witness ==
    /\ rateLimiter
    /\ maxRetries = FairRetriesBound
    /\ Done("c1")
    /\ NeverCancelled("c1")
    /\ permits["c1"] = 1
    /\ nDispatch["c1"] = maxRetries + 1
    /\ \A k \in Attempts("c1") : log["c1"][k] = Outcome("response", 503, "")

(* ------------------------------- C35 ---------------------------------- *)

\* the upstream fetch of goroutine g's call fails in this step
FetchFails(g) ==
    /\ cached[g].pc = "fetch"
    /\ cached'[g].pc = "done"
    /\ cached'[g].err

\* goroutine g, whose last call failed, calls the same method again in
\* this step
CallsAgainAfterFailure(g) ==
    /\ cached[g].pc = "done"
    /\ cached[g].err
    /\ cached'[g] # cached[g]
    /\ cached'[g].method = cached[g].method

\* C35: a CachedClient call whose upstream fetch fails returns the error
\* and no value and leaves the cache as it was, with nothing stored under
\* the key; the same call made again issues an upstream request, unless a
\* successful call has stored an entry that is still within its TTL, and
\* then it returns that entry's value: never the failure, never a value
\* past its TTL.
C35_FailureIsNotCached ==
    [][ \A g \in Goroutines :
          /\ FetchFails(g) =>
                /\ items' = items
                /\ lastSet' = lastSet
                /\ cached'[g].value = ""
                /\ cached'[g].upstream = 1
          /\ CallsAgainAfterFailure(g) =>
                IF Live(CacheKey(cached[g].method), clock)
                THEN /\ cached'[g].pc = "done"
                     /\ ~cached'[g].err
                     /\ cached'[g].value =
                          lastSet[CacheKey(cached[g].method)].value
                     /\ cached'[g].value \in CacheValues
                ELSE /\ cached'[g].pc = "fetch"
                     /\ cached'[g].upstream = 1 ]_vars

\* GetNetworks failed upstream for one goroutine, with nothing stored under
\* its key before or after; the other goroutine, which found nothing
\* cached either, is fetching upstream.
C35_Witness ==
    /\ cached["g1"].pc = "done"
    /\ cached["g1"].method = "GetNetworks"
    /\ cached["g1"].err
    /\ cached["g1"].value = ""
    /\ ~items["networks"].present
    /\ ~lastSet["networks"].live
    /\ cached["g2"].pc = "fetch"
    /\ cached["g2"].method = "GetNetworks"
    /\ cached["g2"].upstream = 1

(* ------------------------------- C36 ---------------------------------- *)

\* a call of GetNextPage on the paginator has failed upstream
HasFailed(p) == ~GetError(p).nil

\* C36: once a call of GetNextPage has failed, on the first page or on a
\* later one, HasNextPage returns false and the paginator issues no
\* further request.
C36_NoNextPageAfterFailure ==
    [][ HasFailed(pager) =>
          /\ ~HasNextPage(pager)
          /\ requested' = requested ]_vars

(* ------------------------------- C37 ---------------------------------- *)

\* a call of GetNextPage issues a request and succeeds in this step
Fetches ==
    /\ Len(requested') = Len(requested) + 1
    /\ pageOp'.ret.nil

\* the page number of the request issued last
LastRequested(r) == r[Len(r)]

\* C37: the successful calls of GetNextPage request consecutive page
\* numbers, each once: the first requests the starting page (the caller's
\* ListOptions.Page for pools, which failed attempts at the first page
\* leave as it is, and 0 for transactions) and each later one the page of
\* the successful request before it plus one.
C37_ConsecutivePages ==
    [][ /\ Fetches =>
              IF pager.currentResp.nil
              THEN /\ LastRequested(requested') = pager.page
                   /\ pager.kind = "transactions" => pager.page = 0
                   /\ \A k \in 1..Len(requested) : requested[k] = pager.page
              ELSE /\ pageOp.ret.nil
                   /\ LastRequested(requested') = LastRequested(requested) + 1
        /\ (pager.made /\ pager'.currentResp.nil) =>
              pager'.page = pager.page ]_vars

\* A PoolsPaginator made with ListOptions.Page 1 has fetched two pages,
\* 1 and 2; a TransactionsPaginator would be at 0 and 1.
C37_Witness ==
    /\ pager.kind = "pools"
    /\ pager.err.nil
    /\ pageOp.ret.nil
    /\ ~pager.currentResp.nil
    /\ requested = <<1, 2>>

(* ------------------------------- C38 ---------------------------------- *)

\* the current page is short, or it is the last page the server has
LastPage(p) ==
    \/ Len(GetCurrentPage(p)) < p.limit
    \/ p.currentResp.Page + 1 >= p.currentResp.TotalPages

\* C38: against a server that reports total_pages T and returns full pages
\* until the last, the paginator makes at most T successful fetches:
\* HasNextPage is true before the first fetch, and after a fetch it is
\* false exactly when the current page holds fewer items than the limit
\* or its page number plus one reaches total_pages; a call of GetNextPage
\* made when HasNextPage is false returns an error, issues no request and
\* leaves the paginator as it is.
C38_LoopEndsWithinTotalPages ==
    /\ [](pager.made =>
            IF pager.currentResp.nil
            THEN HasNextPage(pager) /\ requested = << >>
            ELSE /\ Len(requested) <= pager.currentResp.TotalPages
                 /\ HasNextPage(pager) <=> ~LastPage(pager))
    /\ [][ (pager.made /\ ~HasNextPage(pager)) =>
              /\ pager' = pager
              /\ requested' = requested
              /\ ~pageOp'.ret.nil ]_vars

\* A PoolsPaginator with limit 2 has fetched the two pages of a server
\* with total_pages 2, and a further call of GetNextPage has returned the
\* error "no more pages".
C38_Witness ==
    /\ pager.kind = "pools"
    /\ pager.limit = 2
    /\ requested = <<0, 1>>
    /\ pager.currentResp.TotalPages = 2
    /\ Len(GetCurrentPage(pager)) = 2
    /\ ~HasNextPage(pager)
    /\ pageOp.ret.msg = "no more pages"

====
